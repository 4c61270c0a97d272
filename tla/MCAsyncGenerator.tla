-------------------------- MODULE MCAsyncGenerator --------------------------
EXTENDS AsyncGenerator
=============================================================================
