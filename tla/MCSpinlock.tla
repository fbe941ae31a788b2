----------------------------- MODULE MCSpinlock -----------------------------
EXTENDS Spinlock, TLC

=============================================================================
