---------------------------- MODULE MCTknLocalRun ----------------------------
EXTENDS TknLocalRun

TwoHandlers == {"h1", "h2"}

=============================================================================
