------------------------- MODULE MCGraphedCallables -------------------------
(***************************************************************************)
(* GraphedCallables for TLC: every pipeline schedule of two chunks and two *)
(* microbatches, and of one chunk and three.                               *)
(***************************************************************************)
EXTENDS GraphedCallables

\* The schedules that extend s by p: backwards follow their forwards, and a wgrad its
\* dgrad, at once if tight.
Legal(s, p, m, delay, tight) ==
  LET n(q) == Occurrences(s, Pass(q, p.chunk), 1, Len(s))
      owed == tight /\ s # <<>> /\ delay /\ s[Len(s)].pass = "bwd"
  IN CASE p.pass = "fwd" -> n("fwd") < m /\ ~owed
       [] p.pass = "bwd" -> n("bwd") < n("fwd") /\ ~owed
       [] p.pass = "dw" -> /\ delay /\ n("dw") < n("bwd")
                           /\ tight => s[Len(s)] = Pass("bwd", p.chunk)

Schedules(chunks, m, delay, tight) ==
  LET length == chunks * m * (IF delay THEN 3 ELSE 2)
      all == {Pass(p, k) : p \in Passes, k \in 1..chunks}
      f[x \in 0..length] ==
        IF x = 0 THEN {<<>>}
        ELSE UNION {{Append(s, p) : p \in {q \in all : Legal(s, q, m, delay, tight)}} : s \in f[x - 1]}
  IN f[length]

Config(order, layers, shape, reuse, delay) ==
  [order |-> order, layers |-> layers, shape |-> shape, reuse |-> reuse, delay |-> delay]

\* What is refused: wgrads that lag behind, that are missing, or that no module needs.
Refused ==
  LET loose == Schedules(1, 2, TRUE, FALSE)
      refused == {c \in {Config(s, <<1>>, <<1>>, TRUE, TRUE) : s \in loose \cup {Front(s) : s \in loose}} : ~Alternates(c)}
  IN refused \cup {[c EXCEPT !.delay = FALSE] : c \in refused}

MCConfigs ==
  Refused
  \cup {Config(s, <<1, 2>>, shape, TRUE, FALSE) :
     s \in Schedules(2, 2, FALSE, TRUE), shape \in {<<1, 1>>, <<1, 2>>}}
  \cup {Config(s, <<2>>, <<1>>, reuse, FALSE) : s \in Schedules(1, 3, FALSE, TRUE), reuse \in BOOLEAN}
  \cup {Config(s, <<1, 1>>, <<1, 1>>, TRUE, TRUE) : s \in Schedules(2, 2, TRUE, TRUE)}

\* Any schedule in which a wgrad comes some time after its dgrad.
LooseWgrad == {Config(s, <<1>>, <<1>>, TRUE, TRUE) : s \in Schedules(1, 2, TRUE, FALSE)}
=============================================================================
