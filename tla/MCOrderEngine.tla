---------------------------- MODULE MCOrderEngine ----------------------------
(* The traders the runs of OrderEngine let loose on the engine.            *)
EXTENDS OrderEngine

Ticket(side, qty, kind, bracket) ==
  [side |-> side, qty |-> qty, kind |-> kind, bracket |-> bracket]

\* A bracketed entry for three, and selling one of them by hand.
Bracketed == {Ticket(1, 3, "MARKET", TRUE), Ticket(-1, 1, "MARKET", FALSE)}

\* The same, and scaling in.
Scaled == Bracketed \cup {Ticket(1, 1, "MARKET", FALSE)}

\* A bracketed entry that rests, scaling in, and selling by hand.
ScaledIn == {Ticket(1, 1, "LIMIT", TRUE), Ticket(1, 1, "MARKET", FALSE),
             Ticket(-1, 1, "MARKET", FALSE)}

\* A bracketed entry for one.
Single == {Ticket(1, 1, "MARKET", TRUE)}

\* The same, resting.
Resting == {Ticket(1, 1, "LIMIT", TRUE)}

\* Bracketed entries for one, and selling one by hand.
Doubled == {Ticket(1, 1, "MARKET", TRUE), Ticket(-1, 1, "MARKET", FALSE)}

\* A bracketed entry for two, against a short of one.
ShortFirst == {Ticket(1, 2, "MARKET", TRUE), Ticket(-1, 1, "MARKET", FALSE)}

\* No brackets: market and resting orders on both sides.
Plain == {Ticket(1, 1, "MARKET", FALSE), Ticket(1, 1, "LIMIT", FALSE),
          Ticket(-1, 1, "STOP_MARKET", FALSE)}
===============================================================================
