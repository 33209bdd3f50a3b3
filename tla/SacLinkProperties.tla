-------------------------- MODULE SacLinkProperties --------------------------
(* What is checked of the connection between SAC's client and its server.    *)
EXTENDS SacLink

\* Type invariant.
TypeOK ==
    /\ calling \in [Worker -> Op \cup {None}]
    /\ returned # None =>
          /\ returned.worker \in Worker /\ returned.op \in Op
          /\ returned.value \in Value /\ returned.from \in Worker \cup {None}
          /\ returned.told \in {"success", "error", "killed"}
    /\ toServer \in Seq(Request) /\ toClient \in Seq(Answer)
    /\ up \in BOOLEAN /\ mounted \in BOOLEAN
    /\ overlap \in BOOLEAN /\ long \in BOOLEAN

\* Safety: while every read() takes whole messages, no more pieces travel than
\* workers wait, whatever requests and answers were read together and lost:
\* when nobody waits nothing is left over for the next operation, so that
\* workers that got each other's answers do not go on doing so.
LinkDrains ==
    ~long => Len(toServer) + Len(toClient) <= Cardinality(Waiting)

\* Action property: an operation that met no other since the connection was
\* quiet gets the answer to its own request, as long as the server runs and no
\* message was long.
Alone == up /\ ~overlap /\ ~long
OwnAnswerWhenAlone ==
    [][Alone /\ returned' # None => returned'.from = returned'.worker]_vars

\* Action property: such an operation, unless it is a write, tells FUSE of an
\* error whenever the server refused it.  It does so without a refusal only
\* when it is a read that was given a text, whose address is returned.
Done == {"n", "data", "emptyfile", "S_IFDIR", "S_IFREG n"}
ToldTheTruthWhenAlone ==
    [][Alone /\ returned' # None /\ returned'.op # "write"
        => /\ returned'.value \in replies[returned'.op]
           /\ returned'.value \notin Done => returned'.told = "error"
           /\ returned'.told = "error" /\ returned'.value \in Done
                => returned'.op = "read" /\ returned'.value = "data"]_vars

\* Liveness: an operation ends, with the server running or gone and whatever
\* was left over for it, unless another one meets it; then a request or an
\* answer may be lost with the other and a worker waits for ever.
LoneCallEnds ==
    \A w \in Worker : calling[w] # None ~> calling[w] = None \/ overlap
=============================================================================
