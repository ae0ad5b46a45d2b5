---------------------------- MODULE MCHashTable ----------------------------
\* HashTable with every hash function of a few keys into a few values.
EXTENDS HashTable
=============================================================================
