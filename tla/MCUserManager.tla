---------------------------- MODULE MCUserManager ----------------------------
EXTENDS UserManager

CONSTANTS bob, eve

\* A block without a password, the account, and a second block for it.
MCFile == << [name |-> bob, pass |-> NoPass, level |-> 1, max_hops |-> 2],
             [name |-> bob, pass |-> "p", level |-> 1, max_hops |-> 1],
             [name |-> bob, pass |-> DefaultPass, level |-> 3, max_hops |-> 2] >>
=============================================================================
