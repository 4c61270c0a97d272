----------------------- MODULE MCBackgroundGenerator -----------------------
EXTENDS BackgroundGenerator

\* Passes of unequal length, one of them empty (fewer segments than workers).
\* Seven passes: three for the trainer, two more in the queue, one in the
\* producer's hands, and one never reached.
MCNumBatches == <<2, 0, 3, 1, 0, 0, 0>>
============================================================================
