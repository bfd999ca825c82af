------------------------------ MODULE MCWorker ------------------------------
(* Model-checking instances of Worker.                                      *)
EXTENDS Worker, TLC

\* Handlers, workers and channels are interchangeable, and so are sessions and
\* tasks: no definition names one of them.
Symmetry ==
  Permutations(Reqs) \cup Permutations(Workers) \cup Permutations(Chans)
    \cup Permutations(Tasks)

\* Objects that nothing refers to are told apart from fresh ones by their
\* garbage only, which Create and Register overwrite before anyone reads it.
View ==
  <<registry, lst, cur, wres, handler,
    [w \in Workers |-> IF FreshWorker(w) THEN Nil
                       ELSE <<sess[w], signalChan[w], outChanList[w]>>],
    [c \in Chans |-> IF FreshChan(c) THEN Nil ELSE buf[c]]>>
=============================================================================
