------------------------------ MODULE MCBackup ------------------------------
\* Two days of two instants and a bit, two files kept, two failures.
EXTENDS Backup, TLC

=============================================================================
