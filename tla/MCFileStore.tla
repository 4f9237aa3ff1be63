------------------------------ MODULE MCFileStore ------------------------------
EXTENDS FileStoreChecks

\* Nothing is promised of a file after operations have met on it: a behaviour is
\* followed until they have met on every file.
OneUncrossed == crossed # Files
================================================================================
