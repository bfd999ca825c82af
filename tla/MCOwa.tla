------------------------------- MODULE MCOwa --------------------------------
(* Model-checking instance of Owa: windows of one user who is not special,  *)
(* and so share a session wherever they are.                                *)
EXTENDS Owa

CONSTANTS r1, r2, t1, t2

MCClient ==
  [r \in Reqs |-> [user |-> "u", isSpecial |-> FALSE, debugIP |-> "",
                   host |-> IF r = r1 THEN "h1" ELSE "h2",
                   requestId |-> ""]]

MCSessions == {makeHandlerID(MCClient[r]) : r \in Reqs}

MCUuid == [r \in Reqs |-> IF r = r1 THEN t1 ELSE t2]

\* As in MCWorker: the contents of objects that nothing refers to are dropped.
\* They are overwritten before they are read, and no property looks at them.
OwaView ==
  <<registry, lst, cur, wres, handler, browser,
    [w \in Workers |-> IF FreshWorker(w) THEN Nil
                       ELSE <<sess[w], signalChan[w], outChanList[w], taken[w]>>],
    [c \in Chans |-> IF FreshChan(c) THEN Nil ELSE buf[c]]>>
=============================================================================
