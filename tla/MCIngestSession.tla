--------------------------- MODULE MCIngestSession ---------------------------
EXTENDS IngestSession, TLC

\* Handles are interchangeable: the run with two of them, which checks no
\* liveness, uses the symmetry.
HandleSymmetry == Permutations(Handle)

\* What a step can depend on: no action reads the memory of an object that is
\* no longer running before Fresh has cleared it.
Running(f) == [h \in {g \in Handle : Live(g)} |-> f[h]]
LiveMemory ==
    <<call, Running(want), Running(acked), Running(record), Running(linked),
      Running(chunk), Running(attempt), Running(stop), outcome,
      store, provider, lapsed>>
==============================================================================
