----------------------------- MODULE MCChunking -----------------------------
EXTENDS Chunking

\* Usual settings, no overlap, an overlap as large as the window, a gap, and empty windows.
SomeSettings ==
  {[max |-> m, size |-> s, overlap |-> o] :
     m \in {2, 4}, <<s, o>> \in {<<3, 1>>, <<2, 0>>, <<2, 2>>, <<2, -2>>, <<0, 1>>}}

\* Ordinary settings on a small scale: windows as long as the longest symbol, less overlap.
OrdinarySettings == {[max |-> 2, size |-> 2, overlap |-> 1]}
=============================================================================
