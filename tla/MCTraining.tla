----------------------------- MODULE MCTraining -----------------------------
EXTENDS Training

=============================================================================
