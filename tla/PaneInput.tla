----------------------------- MODULE PaneInput ------------------------------
(***************************************************************************)
(* Input on its way to a pane's program: the channel bounded in bytes      *)
(* (pane_input.rs), the framing of pastes under the io lock (attach.rs,    *)
(* pane_io.rs), and the queue the PTY task writes from (PtyInputQueue in   *)
(* pane_spawn.rs).                                                         *)
(*                                                                         *)
(* Attach clients, RPC callers and mouse reports share one pane.  A sender *)
(* reserves bytes and a slot, in order of arrival, and may give up; with   *)
(* its room it takes the io lock, frames its bytes against the paste that  *)
(* is open then, and queues them.  The PTY task writes as far as the       *)
(* program reads, and puts terminal replies between the chunks.            *)
(*                                                                         *)
(* A pane runs one program, so a paste's program is always the pane's.     *)
(***************************************************************************)
EXTENDS Integers, Sequences, FiniteSets, SequencesExt

CONSTANTS
  Clients,     \* attach clients
  Callers,     \* RPC callers (send_keys, pane.run)
  Lengths,     \* the bytes a caller may send at once; a client sends one
  Budget,      \* BUDGET
  Control,     \* CONTROL_BUDGET
  ChunkCost,   \* CHUNK_COST
  Slots,       \* SLOTS
  MaxReplies,  \* PtyInputQueue::CAP, in replies
  MaxPastes,   \* bound: pastes a client begins
  MaxLeaves,   \* bound: times the program leaves paste mode
  MaxQueries,  \* bound: queries the program makes
  MaxBeside,   \* bound: chunks under way that the main budget did not pay for
  None

Markers == 3   \* the most markers framing adds: an end, a start and an end

ASSUME BudgetAssumption == Budget \in Nat /\ Control \in Nat /\ Slots \in Nat \ {0}
ASSUME ChunkCostAssumption == ChunkCost \in Nat /\ Markers <= ChunkCost /\ ChunkCost < Budget
ASSUME LengthsAssumption == Lengths \subseteq Nat \ {0}

\* A paste: whose, which of theirs, and begun after how many leaves of paste mode
Paste == [client : Clients, id : Nat, since : Nat]

ASSUME NoneAssumption == None \notin Nat \cup Paste

VARIABLES
  req,       \* what each sender is about
  pasting,   \* each client's paste under way: its id, or None
  pastes,    \* pastes each client has begun
  free,      \* permits left: main, control, slots
  funds,     \* senders waiting for bytes, in order
  places,    \* senders waiting for a slot, in order; they hold their bytes
  open,      \* open_pastes: the paste not ended, or None
  mode,      \* the terminal's bracketed_paste
  chan,      \* chunks queued
  pending,   \* chunks the PTY task holds
  written,   \* bytes written of the first of them
  inPaste,   \* PtyInputQueue::in_paste
  replies,   \* replies to write
  closed,    \* the PTY task takes no more input
  asked,     \* queries made
  left,      \* history: times paste mode was left
  inside     \* history: the paste the program is in, from what it has read

roomVars == <<free, funds, places>>
queueVars == <<chan, pending, written, inPaste, replies>>
progVars == <<mode, asked, left, inside>>
vars == <<req, pasting, pastes, roomVars, open, queueVars, closed, progVars>>

Senders == Clients \cup Callers
Idle == [pc |-> "idle", len |-> 0, paste |-> None, more |-> FALSE]
Waits(s) == req[s].pc \in {"funds", "funded", "place"}

Init ==
  /\ req = [s \in Senders |-> Idle]
  /\ pasting = [c \in Clients |-> None] /\ pastes = [c \in Clients |-> 0]
  /\ free = [main |-> Budget, control |-> Control, slots |-> Slots]
  /\ funds = <<>> /\ places = <<>>
  /\ open = None /\ mode = FALSE
  /\ chan = <<>> /\ pending = <<>> /\ written = 0 /\ inPaste = FALSE /\ replies = 0
  /\ closed = FALSE /\ asked = 0 /\ left = 0 /\ inside = None

(***************************************************************************)
(* Room.  A semaphore hands its permits to the first in line; who asks     *)
(* without waiting gets none while somebody waits.                         *)
(***************************************************************************)

Smaller(a, b) == IF a < b THEN a ELSE b

\* Mutant: a chunk larger than the budget asks for more than there is
CostUnclamped(len, limit) == len + ChunkCost

\* Budget::cost
Cost(len, limit) == Smaller(len + ChunkCost, limit)
Price(s) == Cost(req[s].len, Budget)

\* What the first k of those in line for bytes ask for
Need(line) ==
  LET sum[k \in 0 .. Len(line)] == IF k = 0 THEN 0 ELSE sum[k - 1] + Price(line[k])
  IN  sum

\* How many of them n bytes are enough for
Served(line, n) ==
  CHOOSE k \in 0 .. Len(line) :
    Need(line)[k] <= n /\ (k < Len(line) => Need(line)[k + 1] > n)

\* Permits come back: the free ones are f, and those in line for bytes (a) or a
\* slot (b) have them first.
Settle(f, a, b, r) ==
  LET k == IF a = <<>> THEN 0 ELSE Served(a, f.main)
      m == Smaller(Len(b), f.slots)
  IN  /\ free' = IF k + m = 0 THEN f ELSE [f EXCEPT !.main = @ - Need(a)[k], !.slots = @ - m]
      /\ funds' = SubSeq(a, k + 1, Len(a)) /\ places' = SubSeq(b, m + 1, Len(b))
      /\ req' = IF k + m = 0 THEN r
                ELSE [s \in Senders |->
                       IF \E i \in 1 .. k : a[i] = s THEN [r[s] EXCEPT !.pc = "funded"]
                       ELSE IF \E i \in 1 .. m : b[i] = s THEN [r[s] EXCEPT !.pc = "ready"]
                       ELSE r[s]]

(***************************************************************************)
(* Senders                                                                 *)
(***************************************************************************)

\* reserve, up to its first wait.  try_reserve before it (reserve_input)
\* changes nothing it would not.
Ask(s, len, paste, more) ==
  /\ req[s].pc = "idle" /\ ~closed
  /\ LET cost == Cost(len, Budget)
         pc == IF funds # <<>> \/ cost > free.main THEN "funds"
               ELSE IF places # <<>> \/ free.slots = 0 THEN "place" ELSE "ready"
     IN  /\ req' = [req EXCEPT ![s] = [pc |-> pc, len |-> len, paste |-> paste, more |-> more]]
         /\ funds' = IF pc = "funds" THEN Append(funds, s) ELSE funds
         /\ places' = IF pc = "place" THEN Append(places, s) ELSE places
         /\ free' = [free EXCEPT !.main = IF pc = "funds" THEN @ ELSE @ - cost,
                                 !.slots = IF pc = "ready" THEN @ - 1 ELSE @]
  /\ UNCHANGED <<open, queueVars, closed, progVars>>

\* A frame from an attach client: a key, which ends its paste, or the next
\* piece of a paste.
ClientFrame(c) ==
  \/ /\ Ask(c, 1, None, FALSE)
     /\ pasting' = [pasting EXCEPT ![c] = None] /\ UNCHANGED pastes
  \/ \E more \in BOOLEAN :
       /\ pasting[c] = None => pastes[c] < MaxPastes
       /\ LET id == IF pasting[c] = None THEN pastes[c] + 1 ELSE pasting[c]
          IN  /\ Ask(c, 1, id, more)
              /\ pastes' = [pastes EXCEPT ![c] = Max({@, id})]
              /\ pasting' = [pasting EXCEPT ![c] = IF more THEN id ELSE None]

CallerSends(s) ==
  /\ \E len \in Lengths : Ask(s, len, None, FALSE)
  /\ UNCHANGED <<pasting, pastes>>

\* Its bytes have come: on to the slot.
Poll(s) ==
  /\ req[s].pc = "funded" /\ ~closed
  /\ LET now == places = <<>> /\ free.slots > 0
     IN  /\ req' = [req EXCEPT ![s].pc = IF now THEN "ready" ELSE "place"]
         /\ places' = IF now THEN places ELSE Append(places, s)
         /\ free' = IF now THEN [free EXCEPT !.slots = @ - 1] ELSE free
  /\ UNCHANGED <<funds, pasting, pastes, open, queueVars, closed, progVars>>

\* The wait is over: INPUT_STALL or a timeout has passed, or the caller is gone,
\* for the io lock too.  What it held goes back.
GiveUp(s) ==
  /\ (Waits(s) \/ req[s].pc = "ready") /\ ~closed
  /\ Settle([free EXCEPT !.main = @ + IF req[s].pc = "funds" THEN 0 ELSE Price(s),
                         !.slots = @ + IF req[s].pc = "ready" THEN 1 ELSE 0],
            RemoveFirst(funds, s), RemoveFirst(places, s),
            [req EXCEPT ![s] = Idle])
  /\ UNCHANGED <<pasting, pastes, open, queueVars, closed, progVars>>

\* tx.closed(): the PTY task takes no more input.
SeesClosed(s) ==
  /\ Waits(s) /\ closed
  /\ req' = [req EXCEPT ![s] = Idle]
  /\ UNCHANGED <<pasting, pastes, roomVars, open, queueVars, closed, progVars>>

(***************************************************************************)
(* Framing                                                                 *)
(***************************************************************************)

Start(p) == [kind |-> "start", paste |-> p]
End == [kind |-> "end", paste |-> None]
Text(p, len) == [i \in 1 .. len |-> [kind |-> "text", paste |-> p]]

OpenPaste == IF mode THEN open ELSE None

\* Mutant: a client's piece continues whatever paste is open
FramedAsNext(s) ==
  LET r == req[s]
      more == r.more
      continued == r.paste # None /\ open # None
      p == IF continued THEN open ELSE [client |-> s, id |-> r.paste, since |-> left]
      ended == IF OpenPaste # None /\ ~continued THEN <<End>> ELSE <<>>
      own == [client |-> s, id |-> r.paste, since |-> left]
  IN  IF r.paste # None /\ (continued \/ mode)
      THEN [bytes |-> ended \o (IF continued THEN <<>> ELSE <<Start(p)>>) \o Text(own, r.len)
                            \o (IF more THEN <<>> ELSE <<End>>),
            open |-> IF more THEN p ELSE None]
      ELSE [bytes |-> ended \o Text(None, r.len), open |-> None]

\* send_input: the framed bytes and the paste they leave open
Framed(s) ==
  LET r == req[s]
      more == r.more
      continued == /\ r.paste # None /\ open # None
                   /\ open.client = s /\ open.id = r.paste
      p == IF continued THEN open ELSE [client |-> s, id |-> r.paste, since |-> left]
      ended == IF OpenPaste # None /\ ~continued THEN <<End>> ELSE <<>>
  IN  IF r.paste # None /\ (continued \/ mode)
      THEN [bytes |-> ended \o (IF continued THEN <<>> ELSE <<Start(p)>>) \o Text(p, r.len)
                            \o (IF more THEN <<>> ELSE <<End>>),
            open |-> IF more THEN p ELSE None]
      ELSE [bytes |-> ended \o Text(None, r.len), open |-> None]

\* send_outside_paste
Outside(len) ==
  [bytes |-> (IF OpenPaste # None THEN <<End>> ELSE <<>>) \o Text(None, len),
   open |-> IF OpenPaste # None THEN None ELSE open]

Chunk(bytes, from, held, slot) == [bytes |-> bytes, from |-> from, held |-> held, slot |-> slot]

\* With its room a sender takes the io lock, frames and queues.  A chunk for a
\* task that is gone is dropped.
Send(s) ==
  /\ req[s].pc = "ready"
  /\ req' = [req EXCEPT ![s] = Idle]
  /\ LET framed == IF s \in Clients THEN Framed(s) ELSE Outside(req[s].len)
     IN  IF ~closed
         THEN /\ chan' = Append(chan, Chunk(framed.bytes, "main", Price(s), TRUE))
              /\ open' = framed.open
         ELSE UNCHANGED <<chan, open>>
  /\ UNCHANGED <<pasting, pastes, roomVars, pending, written, inPaste, replies, closed, progVars>>

(***************************************************************************)
(* Input that does not wait (try_reserve_in): a mouse report, a Ctrl-C     *)
(***************************************************************************)

Beside == Len(SelectSeq(pending \o chan, LAMBDA c : c.from # "main"))

\* Where a byte finds room, "none" for outside every bound and None for
\* nowhere.  A slot that is missing gives the bytes back.
RoomIn(lane, len) ==
  LET slot == places = <<>> /\ free.slots > 0
  IN  IF funds = <<>> /\ Cost(len, Budget) <= free.main /\ slot THEN "main"
      ELSE IF lane = "main" THEN None
      ELSE IF Cost(len, Control) <= free.control /\ slot THEN "control"
      ELSE IF lane = "urgent" THEN "none" ELSE None

\* The bytes, from where their room was found.
Queue(from, bytes, len) ==
  LET held == [main |-> Cost(len, Budget), control |-> Cost(len, Control), none |-> 0][from]
  IN  /\ chan' = Append(chan, Chunk(bytes, from, held, from # "none"))
      /\ free' = IF from = "none" THEN free
                 ELSE [free EXCEPT ![from] = @ - held, !.slots = @ - 1]

TrySend(lane) ==
  LET from == RoomIn(lane, 1)
  IN  /\ ~closed /\ from # None
      /\ from # "main" => Beside < MaxBeside
      /\ Queue(from, Outside(1).bytes, 1)
      /\ open' = Outside(1).open
      /\ UNCHANGED <<req, pasting, pastes, funds, places, pending, written, inPaste, replies, closed,
                     progVars>>

\* close_open_pastes: a client that leaves ends the paste it left open.
Detach(c) ==
  LET from == RoomIn("urgent", 1)
      mine == ~closed /\ OpenPaste # None /\ open.client = c
  IN  /\ req[c].pc = "idle"
      /\ req' = [req EXCEPT ![c].pc = "gone"]
      /\ IF mine THEN Queue(from, <<End>>, 1) /\ open' = None ELSE UNCHANGED <<chan, free, open>>
      /\ UNCHANGED <<pasting, pastes, funds, places, pending, written, inPaste, replies, closed,
                     progVars>>

(***************************************************************************)
(* The PTY task                                                            *)
(***************************************************************************)

Recv ==
  /\ ~closed /\ chan # <<>>
  /\ pending' = Append(pending, [chan[1] EXCEPT !.slot = FALSE])
  /\ chan' = Tail(chan)
  /\ Settle([free EXCEPT !.slots = @ + IF chan[1].slot THEN 1 ELSE 0], funds, places, req)
  /\ UNCHANGED <<pasting, pastes, open, written, inPaste, replies, closed, progVars>>

Replying == written = 0 /\ ~inPaste /\ replies > 0

WriteReply ==
  /\ ~closed /\ Replying
  /\ replies' = replies - 1
  /\ UNCHANGED <<req, pasting, pastes, roomVars, open, chan, pending, written, inPaste, closed,
                 progVars>>

LastOf(bytes, kind) ==
  CHOOSE i \in 0 .. Len(bytes) : /\ i > 0 => bytes[i].kind = kind
                                 /\ \A j \in i + 1 .. Len(bytes) : bytes[j].kind # kind

\* What a chunk that is written through does to in_paste
InPasteAfter(bytes) ==
  IF LastOf(bytes, "start") > LastOf(bytes, "end") THEN TRUE
  ELSE IF LastOf(bytes, "end") > 0 THEN FALSE ELSE inPaste

\* PaneInput::wrote, for one byte, and the drop of a chunk written through
GivenBack(chunk, through) ==
  IF through THEN chunk.held ELSE Smaller(1, IF chunk.held > ChunkCost THEN chunk.held - ChunkCost ELSE 0)

Returned(from, n) == IF from = "none" THEN free ELSE [free EXCEPT ![from] = @ + n]

Byte == pending[1].bytes[written + 1]

\* The program reads a byte of the first chunk: write_some and consume.  What
\* it reads tells it where a paste begins, if it is in paste mode still.
WriteInput ==
  /\ ~closed /\ pending # <<>> /\ ~Replying
  /\ LET chunk == pending[1]
         through == written + 1 = Len(chunk.bytes)
         n == GivenBack(chunk, through)
     IN  /\ pending' = IF through THEN Tail(pending)
                       ELSE [pending EXCEPT ![1].held = @ - n]
         /\ written' = IF through THEN 0 ELSE written + 1
         /\ inPaste' = IF through THEN InPasteAfter(chunk.bytes) ELSE inPaste
         /\ Settle(Returned(chunk.from, n), funds, places, req)
  /\ inside' = IF Byte.kind = "start" /\ Byte.paste.since = left /\ mode THEN Byte.paste
               ELSE IF Byte.kind = "end" THEN None ELSE inside
  /\ UNCHANGED <<pasting, pastes, open, chan, replies, closed, mode, asked, left>>

\* A read of the program's output: it may switch paste mode, and ask.
Output(bracketed, query) ==
  /\ ~closed /\ (bracketed # mode \/ query)
  /\ mode /\ ~bracketed => left < MaxLeaves
  /\ query => asked < MaxQueries
  /\ mode' = bracketed
  /\ left' = IF mode /\ ~bracketed THEN left + 1 ELSE left
  /\ inside' = IF bracketed THEN inside ELSE None
  /\ inPaste' = (inPaste /\ bracketed)
  /\ asked' = IF query THEN asked + 1 ELSE asked
  /\ replies' = IF query /\ replies < MaxReplies THEN replies + 1 ELSE replies
  /\ UNCHANGED <<req, pasting, pastes, roomVars, open, chan, pending, written, closed>>

\* The task leaves its loop, by itself or cancelled by a kill:
\* drop((write_rx, pending)).
Close ==
  /\ ~closed /\ closed' = TRUE
  /\ chan' = <<>> /\ pending' = <<>> /\ written' = 0 /\ inPaste' = FALSE /\ replies' = 0
  /\ funds' = <<>> /\ places' = <<>>
  /\ free' = [main |-> Budget, control |-> Control, slots |-> Slots]
  /\ UNCHANGED <<req, pasting, pastes, open, progVars>>

Next ==
  \/ \E c \in Clients : ClientFrame(c) \/ Detach(c)
  \/ \E s \in Callers : CallerSends(s)
  \/ \E s \in Senders : Poll(s) \/ GiveUp(s) \/ SeesClosed(s) \/ Send(s)
  \/ \E lane \in {"main", "control", "urgent"} : TrySend(lane)
  \/ Recv \/ WriteReply \/ WriteInput
  \/ \E bracketed, query \in BOOLEAN : Output(bracketed, query)
  \/ Close

Spec == Init /\ [][Next]_vars

(***************************************************************************)
(* Properties                                                              *)
(***************************************************************************)

\* The sum of a sequence of numbers
Total(w) ==
  LET sum[k \in 0 .. Len(w)] == IF k = 0 THEN 0 ELSE sum[k - 1] + w[k]
  IN  sum[Len(w)]

\* "a program that stops reading holds every sender back once BUDGET unwritten
\* bytes wait for it": what waits in the channel or in the PTY task never
\* exceeds the budget, markers added after the reservation included, but for a
\* chunk that is larger by itself (Budget::cost, PaneInput::wrote).
Bounded ==
  LET queue == pending \o chan
      Texts(c) == Cardinality({i \in DOMAIN c.bytes : c.bytes[i].kind = "text"})
      Counts(c) == c.from = "main" /\ Texts(c) + ChunkCost <= Budget
      sizes == [i \in DOMAIN queue |-> IF Counts(queue[i]) THEN Len(queue[i].bytes) ELSE 0]
      done == IF pending # <<>> /\ Counts(pending[1]) THEN written ELSE 0
  IN  Total(sizes) - done <= Budget

\* While a program stays in paste mode, it reads between a paste's markers
\* that paste's own bytes: no key, call, mouse report, reply or other paste gets
\* in, and no byte of a bracketed paste comes without its marker, whoever else
\* sends, gives up or leaves between its pieces (frame_input,
\* send_outside_paste, PtyInputQueue).
PasteKept ==
  [][/\ WriteReply => inside = None
     /\ WriteInput /\ inside # None => (Byte.kind = "end" \/ Byte = Text(inside, 1)[1])
     /\ WriteInput /\ Byte.kind = "text" /\ Byte.paste # None
          => (Byte.paste.since < left \/ inside = Byte.paste)]_vars

\* Nobody waits for nothing.  Whoever waits for bytes does so because another
\* sender or an unwritten chunk holds them, however large it is itself; whoever
\* waits for a slot, because one is held by a chunk not received or a sender
\* about to queue one.  What a sender that gave up, a chunk written through or a
\* sender served before it returned has reached the first in line
\* (PaneWriter::reserve, PaneInput::wrote).
NeverStranded ==
  LET Holds(s) == req[s].pc \in {"funded", "place", "ready"}
  IN  ~closed =>
        /\ funds # <<>> =>
             /\ Price(funds[1]) > free.main
             /\ \/ \E s \in Senders : Holds(s)
                \/ \E c \in Range(pending \o chan) : c.from = "main"
        /\ places # <<>> =>
             /\ free.slots = 0
             /\ \/ \E s \in Senders : req[s].pc = "ready"
                \/ \E i \in DOMAIN chan : chan[i].slot

\* The byte budget is neither exceeded nor wasted: no more waits for the
\* program than it allows, and nobody waits beside room (BUDGET,
\* PaneWriter::reserve).
BudgetExact == Bounded /\ NeverStranded

=============================================================================
