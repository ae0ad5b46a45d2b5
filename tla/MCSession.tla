----------------------------- MODULE MCSession -----------------------------
\* Session with two places for the cursor and lines of 5 and 8 bytes, the first two
\* sizes a line has.
EXTENDS Session
SmallFrame == [row : {0}, col : {0}, size : {5, 8}] \cup [row : {1}, col : {1}, size : {5, 8}]
\* The line that fits is the case that is checked.
ASSUME FrameFits == Fits
=============================================================================
