------------------------------- MODULE SacLink -------------------------------
(* The connection between the FUSE client of SAC and its server: sac_cli.c's *)
(* operations, the loop of server.c and the dispatch of parser.c.            *)
(*                                                                           *)
(* fuse_main runs the operations in several threads, here workers.  They     *)
(* share one TCP socket and no mutex: each sends its request and takes the   *)
(* next thing that can be read for its answer.  A stream is a sequence of    *)
(* pieces.  One read() may take several of them, of which only the first     *)
(* string is looked at; a message longer than the reader's buffer (3000      *)
(* bytes in the server, 100 in the client) takes two reads.                  *)
EXTENDS Integers, Sequences, FiniteSets

CONSTANTS
    Worker,         \* threads of fuse_main
    None,           \* no operation, nobody
    Call,           \* the operations they are asked for
    Parts,          \* how a long message may arrive, see pieces
    MaxInFlight     \* bound: no request is sent while this many pieces travel

Op == {"open", "read", "getattr", "mknod", "mkdir", "write"}

\* What each action_ function of the server answers.  "n" is a number in
\* decimal, "data" the text of a file.
creation_refusals == {"EEXIST", "ENAMETOOLONG", "ENOENT", "ENOTDIR"}
replies == [open    |-> {"EISDIR", "-ENOENT", "n"},
            read    |-> {"EISDIR", "EBADF", "emptyfile", "EOVERFLOW", "data"},
            getattr |-> {"S_IFDIR", "-ENOENT", "S_IFREG n"},
            mknod   |-> creation_refusals \cup {"n"},
            mkdir   |-> creation_refusals \cup {"n"},
            write   |-> {"EISDIR", "EBADF", "n"}]
Malformed == "malformed"    \* parse_input's own answers
Closed == ""                \* what the buffer holds when read() fails

Value == (UNION {replies[op] : op \in Op}) \cup {Malformed, Closed}
Part == {"whole", "head", "rest"}
Request == [op : Op, worker : Worker, part : Part]
Answer == [value : Value, worker : Worker, part : Part]

ASSUME SacLinkAssumption ==
    /\ IsFiniteSet(Worker) /\ None \notin Worker \cup Op
    /\ Call \subseteq Op
    /\ Parts \in (SUBSET {1, 2}) \ {{}}
    /\ MaxInFlight \in Nat

VARIABLES
    calling,        \* the operation each worker is in
    returned,       \* history: the operation that ended in the last step,
                    \* with the answer it read and what FUSE was told
    toServer, toClient,     \* what was sent and not read
    up, mounted,    \* the server and the client run
    overlap,        \* history: two operations met since all was quiet
    long            \* history: some message took two reads

vars == <<calling, returned, toServer, toClient, up, mounted, overlap, long>>

Waiting == {w \in Worker : calling[w] # None}
-----------------------------------------------------------------------------
\* A message as the pieces its reader sees.
\* Variant: the zero that ends it is sent on its own.
pieces_torn(n, m) ==
    <<[m EXCEPT !.part = "head"], [m EXCEPT !.part = "rest"]>>
pieces(n, m) ==
    IF n = 1 THEN <<[m EXCEPT !.part = "whole"]>>
    ELSE <<[m EXCEPT !.part = "head"], [m EXCEPT !.part = "rest"]>>

\* How many pieces one read() takes.  What fills the buffer ends it.
readable(s) == {k \in DOMAIN s : \A i \in 1 .. k - 1 : s[i].part # "head"}
unread(s, k) == SubSeq(s, k + 1, Len(s))

\* The buffer may be full inside the next message, too.  The rest of a request
\* is no request; that of an answer is a number or a text still, another word,
\* or nothing.
cuttable(s) == s # <<>> /\ s[1].part = "whole"
rests(v) == {Malformed, Closed} \cup
    CASE v \in {"n", "data"} -> {v} [] v = "S_IFREG n" -> {"n"}
      [] v = "-ENOENT" -> {"ENOENT"} [] OTHER -> {}
cut_request(s) == {[s EXCEPT ![1].part = "rest"]}
cut_answer(s) ==
    {[s EXCEPT ![1].part = "rest", ![1].value = v] : v \in rests(s[1].value)}

\* Only a write carries a text, only a read is answered with one.
sizes(op, text) == IF op = text THEN Parts ELSE {1}

\* The part of every operation up to its sac_send.
Send(w, op) ==
    /\ mounted /\ calling[w] = None
    /\ Len(toServer) + Len(toClient) < MaxInFlight
    /\ calling' = [calling EXCEPT ![w] = op]
    /\ returned' = None
    /\ overlap' = (overlap \/ Waiting # {})
    /\ \E n \in sizes(op, "write") :
          LET m == [op |-> op, worker |-> w, part |-> "whole"] IN
          /\ toServer' = IF up THEN toServer \o pieces(n, m) ELSE toServer
          /\ long' = (long \/ n > 1)
    /\ UNCHANGED <<toClient, up, mounted>>

\* Variant: the last of what was read is read again.
requests_left_last(k) == unread(toServer, k - 1)
requests_left(k) == unread(toServer, k)

\* run_server: read, parse_input, write.  The other strings that came with
\* the first are lost.  Half a request has too few parameters, or begins with
\* no operation's name.
\* Variants: it has an answer that is never set; it is not answered.
first_string_unset(s) ==
    IF s[1].part = "whole" THEN replies[s[1].op] ELSE {None}
first_string_unanswered(s) ==
    IF s[1].part = "whole" THEN replies[s[1].op] ELSE {}
first_string(s) == IF s[1].part = "whole" THEN replies[s[1].op] ELSE {Malformed}

Serve ==
    /\ up /\ toServer # <<>>
    /\ \E k \in readable(toServer) :
       \E v \in first_string(toServer), n \in sizes(toServer[1].op, "read") :
          LET m == [value |-> v, worker |-> toServer[1].worker, part |-> "whole"] IN
          /\ n > 1 => v = "data"
          /\ \/ toServer' = requests_left(k) /\ long' = (long \/ n > 1)
             \/ /\ cuttable(requests_left(k))
                /\ toServer' \in cut_request(requests_left(k)) /\ long' = TRUE
          /\ toClient' = toClient \o pieces(n, m)
    /\ returned' = None
    /\ UNCHANGED <<calling, up, mounted, overlap>>

\* What FUSE is told for an answer.  getattr takes an empty answer apart with
\* string_split and compares the NULL it gets.  sac_write compares its own
\* buffer, not the answer.  sac_read returns the address of its buffer for a
\* text; as an int it may be negative, and that is an error.
\* Variant: mknod and mkdir look for the word getattr uses.
creation_errors_dashed == {"EEXIST", "ENAMETOOLONG", "-ENOENT", "ENOTDIR"}
creation_errors == {"EEXIST", "ENAMETOOLONG", "ENOENT", "ENOTDIR"}
refusals == [open    |-> {"EISDIR", "-ENOENT"},
             read    |-> {"EISDIR", "EBADF", "EOVERFLOW"},
             getattr |-> Value \ {"S_IFDIR", "S_IFREG n", Closed},
             mknod   |-> creation_errors,
             mkdir   |-> creation_errors,
             write   |-> {}]
results(op, v) ==
    IF op = "getattr" /\ v = Closed THEN {"killed"}
    ELSE IF v \in refusals[op] THEN {"error"}
    ELSE IF op = "read" /\ v # "emptyfile" THEN {"success", "error"} ELSE {"success"}

Return(w, value, from) ==
    \E told \in results(calling[w], value) :
       /\ returned' = [worker |-> w, op |-> calling[w], value |-> value,
                       from |-> from, told |-> told]
       /\ calling' = [calling EXCEPT ![w] = None]
       /\ overlap' = (overlap /\ (Waiting # {w} \/ toServer # <<>> \/ toClient' # <<>>))
       /\ mounted' = (told # "killed")

\* The part of every operation behind its read.
Receive(w) ==
    /\ mounted /\ calling[w] # None /\ toClient # <<>>
    /\ \E k \in readable(toClient) :
          LET left == unread(toClient, k) IN
          /\ \/ toClient' = left /\ long' = long
             \/ cuttable(left) /\ toClient' \in cut_answer(left) /\ long' = TRUE
          /\ Return(w, toClient[1].value, toClient[1].worker)
    /\ UNCHANGED <<toServer, up>>

ReceiveClosed(w) ==
    /\ mounted /\ calling[w] # None /\ ~up /\ toClient = <<>>
    /\ UNCHANGED toClient
    /\ Return(w, Closed, None)
    /\ UNCHANGED <<toServer, up, long>>

\* The server ends (see SacNodes and SacData for what ends it); answers that
\* were not read may be lost with the connection.  The client never connects
\* again.
ServerEnds ==
    /\ up
    /\ up' = FALSE
    /\ toServer' = <<>> /\ toClient' \in {toClient, <<>>}
    /\ returned' = None
    /\ UNCHANGED <<calling, mounted, overlap, long>>
-----------------------------------------------------------------------------
Init ==
    /\ calling = [w \in Worker |-> None]
    /\ returned = None
    /\ toServer = <<>> /\ toClient = <<>>
    /\ up = TRUE /\ mounted = TRUE
    /\ overlap = FALSE /\ long = FALSE

Next ==
    \/ \E w \in Worker, op \in Call : Send(w, op)
    \/ \E w \in Worker : Receive(w) \/ ReceiveClosed(w)
    \/ Serve \/ ServerEnds

Spec == Init /\ [][Next]_vars

\* Both processes run; each worker that waits in read() gets what comes in the
\* end.  Nobody has to call.
FairSpec ==
    /\ Spec
    /\ WF_vars(Serve)
    /\ \A w \in Worker : WF_vars(Receive(w) \/ ReceiveClosed(w))
=============================================================================
