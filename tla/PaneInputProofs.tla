--------------------------- MODULE PaneInputProofs ---------------------------
(***************************************************************************)
(* What holds of a pane's input for every set of senders, every budget and *)
(* any number of pastes, replies and changes of mode: the bytes between a  *)
(* paste's markers are that paste's own, and the budget is neither         *)
(* exceeded nor wasted.                                                    *)
(***************************************************************************)
EXTENDS PaneInput, FiniteSetTheorems, SequenceTheorems, WellFoundedInduction, TLAPS

(***************************************************************************)
(* The invariant                                                           *)
(***************************************************************************)

Bytes ==
  [kind : {"start"}, paste : Paste] \cup [kind : {"end"}, paste : {None}]
    \cup [kind : {"text"}, paste : Paste \cup {None}]

Chunks ==
  [bytes : Seq(Bytes), from : {"main", "control", "none"}, held : Nat, slot : BOOLEAN]

Request ==
  [pc : {"idle", "funds", "funded", "place", "ready", "gone"}, len : Nat, paste : Nat \cup {None},
   more : BOOLEAN]

\* Requests r that ask for something, and lines for bytes (a) and a slot (b)
\* of those that wait there, each once
Lined(r, a, b) ==
  /\ r \in [Senders -> Request]
  /\ \A s \in Senders : r[s].pc \notin {"idle", "gone"} => r[s].len > 0
  /\ a \in Seq(Senders) /\ b \in Seq(Senders)
  /\ \A i \in 1 .. Len(a) : r[a[i]].pc = "funds"
  /\ \A i \in 1 .. Len(b) : r[b[i]].pc = "place"
  /\ \A i, j \in 1 .. Len(a) : a[i] = a[j] => i = j
  /\ \A i, j \in 1 .. Len(b) : b[i] = b[j] => i = j

\* The senders, and room that is never overdrawn
Room == [main : Nat, control : Nat, slots : Nat]

SenderTypes ==
  /\ Lined(req, funds, places) /\ free \in Room
  /\ pasting \in [Clients -> Nat \cup {None}] /\ pastes \in [Clients -> Nat]

\* The queues and the program
QueueTypes ==
  /\ open \in Paste \cup {None} /\ mode \in BOOLEAN
  /\ chan \in Seq(Chunks) /\ pending \in Seq(Chunks) /\ written \in Nat
  /\ inPaste \in BOOLEAN /\ replies \in Nat /\ closed \in BOOLEAN
  /\ left \in Nat /\ inside \in Paste \cup {None}

\* What waits for the program: the chunks of the PTY task, then those queued
Waiting == Len(pending) + Len(chan)
At(k) == IF k <= Len(pending) THEN pending[k].bytes ELSE chan[k - Len(pending)].bytes
Final(c) == c[Len(c)]

\* The program has been in paste mode since this paste was framed.
Fresh(p) == p # None /\ p.since = left

\* The paste a program that stays in paste mode is in, having read b
State(b) == IF b.kind # "end" /\ Fresh(b.paste) THEN b.paste ELSE None

\* A program in paste p, or in none, may read b next.
Allowed(p, b) ==
  /\ b.kind = "text" /\ Fresh(b.paste) => p = b.paste
  /\ p # None => b.kind = "end" \/ (b.kind = "text" /\ b.paste = p)

\* A chunk is text of one paste or of none, with markers around it.
Framing(c) ==
  /\ c # <<>> /\ Final(c).kind # "start"
  /\ \A i, j \in 1 .. Len(c) : c[i].kind = "text" /\ c[j].kind = "text" => c[i].paste = c[j].paste
  /\ \A i \in 1 .. Len(c) - 1 : Allowed(State(c[i]), c[i + 1])

\* Each chunk is well framed, and goes on where the one before it ends.
Stream ==
  /\ \A k \in 1 .. Waiting : Framing(At(k))
  /\ \A k \in 1 .. Waiting - 1 : Allowed(State(Final(At(k))), At(k + 1)[1])

\* The program is where the first chunk begins or goes on.
Reading ==
  /\ IF pending = <<>> THEN written = 0 ELSE written < Len(At(1))
  /\ Waiting > 0 => Allowed(inside, At(1)[written + 1])

\* The paste not ended is the one in which all that waits leaves the program.
LastState == IF Waiting = 0 THEN inside ELSE State(Final(At(Waiting)))

Opened ==
  /\ LastState # None => open = LastState
  /\ Fresh(open) => LastState = open

\* A paste framed since the program last entered paste mode finds it there
\* still.
Known(p) == p # None => p.since <= left /\ (p.since = left => mode)

Since ==
  /\ Known(open) /\ Known(inside) /\ (inside # None => Fresh(inside))
  /\ \A k \in 1 .. Waiting : \A i \in 1 .. Len(At(k)) : Known(At(k)[i].paste)

\* The PTY task keeps its replies while the program is in a paste.
KeepsReplies ==
  /\ written = 0 /\ inside # None => inPaste
  /\ pending # <<>> /\ At(1)[1].kind = "text" /\ Fresh(At(1)[1].paste) => inPaste

Streamed == Stream /\ Reading /\ Opened /\ Since /\ KeepsReplies

\* Nobody waits in line for a task that is gone.
Shut == closed => funds = <<>> /\ places = <<>>

IInv == SenderTypes /\ QueueTypes /\ Shut /\ (~closed => Streamed)

(***************************************************************************)
(* Induction, and what the recursive definitions are                       *)
(***************************************************************************)

\* A set that holds 0 and with each number the next holds them all.
LEMMA Induct ==
  ASSUME NEW S, 0 \in S, \A n \in Nat : n \in S => n + 1 \in S
  PROVE  Nat \subseteq S
<1> DEFINE T == Nat \ S
           R == OpToRel(<, Nat)
<1> SUFFICES ASSUME T # {} PROVE FALSE
  OBVIOUS
<1>1. IsWellFoundedOn(R, Nat)
  BY NatLessThanWellFounded
<1>2. T \subseteq Nat
  OBVIOUS
<1>3. PICK x \in T : \A y \in T : ~ (<<y, x>> \in R)
  <2> HIDE DEF T, R
  <2> QED BY <1>1, <1>2, WFMin
<1>4. \A y \in T : ~(y < x)
  BY <1>3 DEF OpToRel
<1>5. x # 0 /\ x - 1 \in Nat /\ x - 1 < x
  BY <1>2
<1>6. x - 1 \in S
  BY <1>4, <1>5
<1> QED BY <1>5, <1>6

\* What a chunk costs is a number of bytes.
LEMMA CostType ==
  ASSUME NEW n \in Nat, NEW limit \in Nat
  PROVE  Cost(n, limit) \in Nat /\ Cost(n, limit) <= limit
BY ChunkCostAssumption DEF Cost, Smaller

\* What somebody asks for is a number of bytes.
LEMMA PriceType ==
  ASSUME req \in [Senders -> Request], NEW s \in Senders
  PROVE  Price(s) \in Nat
<1>1. req[s].len \in Nat
  BY DEF Request
<1> QED BY <1>1, CostType, BudgetAssumption DEF Price

\* Need is the running sum that its definition says it is.
LEMMA NeedSums ==
  ASSUME req \in [Senders -> Request], NEW line \in Seq(Senders)
  PROVE  /\ Need(line) \in [0 .. Len(line) -> Nat] /\ Need(line)[0] = 0
         /\ \A k \in 1 .. Len(line) : Need(line)[k] = Need(line)[k - 1] + Price(line[k])
<1> DEFINE L == Len(line)
           Sum(g, n) == g = [k \in 0 .. n |-> IF k = 0 THEN 0 ELSE g[k - 1] + Price(line[k])]
           Summed(n) == n <= L => \E g \in [0 .. n -> Nat] : Sum(g, n)
           S == {n \in Nat : Summed(n)}
<1>1. L \in Nat /\ \A k \in 1 .. L : Price(line[k]) \in Nat
  BY PriceType
<1> HIDE DEF L
<1>2. 0 \in S
  <2> DEFINE g == [k \in 0 .. 0 |-> 0]
  <2>1. g \in [0 .. 0 -> Nat] /\ Sum(g, 0)
    OBVIOUS
  <2> QED BY <2>1
<1>3. ASSUME NEW n \in Nat, n \in S, n + 1 <= L
      PROVE  n + 1 \in S
  <2>1. PICK g \in [0 .. n -> Nat] : Sum(g, n)
    <3> HIDE DEF Sum
    <3>1. n <= L
      BY <1>1, <1>3
    <3> QED BY <1>3, <3>1
  <2> DEFINE h == [k \in 0 .. n + 1 |-> IF k = n + 1 THEN g[n] + Price(line[n + 1]) ELSE g[k]]
  <2>2. Price(line[n + 1]) \in Nat
    BY <1>1, <1>3
  <2>3. h \in [0 .. n + 1 -> Nat]
    BY <2>2
  <2>4. ASSUME NEW k \in 0 .. n + 1
        PROVE  h[k] = IF k = 0 THEN 0 ELSE h[k - 1] + Price(line[k])
    <3>1. CASE k = n + 1
      BY <3>1
    <3>2. CASE k \in 0 .. n
      BY <2>1, <3>2
    <3> QED BY <3>1, <3>2
  <2>5. Sum(h, n + 1)
    BY <2>3, <2>4
  <2>6. Summed(n + 1)
    <3> HIDE DEF Sum, h
    <3> QED BY <2>3, <2>5
  <2> HIDE DEF Summed
  <2> QED BY <2>6
<1>4. ASSUME NEW n \in Nat, n \in S PROVE n + 1 \in S
  <2>1. CASE n + 1 <= L
    BY <1>3, <1>4, <2>1
  <2>2. CASE ~(n + 1 <= L)
    <3> HIDE DEF Sum
    <3> QED BY <2>2
  <2> QED BY <2>1, <2>2
<1>5. Nat \subseteq S
  <2> HIDE DEF S
  <2> QED BY <1>2, <1>4, Induct
<1>6. PICK g \in [0 .. L -> Nat] : Sum(g, L)
  <2> HIDE DEF Sum
  <2>1. L \in S
    <3> HIDE DEF S
    <3> QED BY <1>1, <1>5
  <2>2. L <= L
    BY <1>1
  <2> QED BY <2>1, <2>2
<1>7. Need(line) = CHOOSE x : Sum(x, L)
  BY DEF Need, L
<1>8. Sum(Need(line), L)
  <2> HIDE DEF Sum
  <2> QED BY <1>6, <1>7
<1> DEFINE N == Need(line)
<1>9. /\ N[0] = 0 /\ \A k \in 1 .. L : N[k] = N[k - 1] + Price(line[k])
      /\ N = [k \in 0 .. L |-> N[k]]
  <2>1. Sum(N, L)
    BY <1>8
  <2>2. N = [k \in 0 .. L |-> IF k = 0 THEN 0 ELSE N[k - 1] + Price(line[k])]
    BY <2>1
  <2> HIDE DEF N
  <2>3. \A k \in 0 .. L : N[k] = IF k = 0 THEN 0 ELSE N[k - 1] + Price(line[k])
    BY <2>2
  <2>4. N[0] = 0
    BY <1>1, <2>3
  <2>5. ASSUME NEW k \in 1 .. L PROVE N[k] = N[k - 1] + Price(line[k])
    <3>1. k \in 0 .. L /\ k # 0
      BY <1>1
    <3> QED BY <2>3, <3>1
  <2>6. N = [k \in 0 .. L |-> N[k]]
    BY <2>2
  <2> QED BY <2>4, <2>5, <2>6
<1> HIDE DEF N
<1> DEFINE W == {n \in Nat : n <= L => N[n] \in Nat}
<1>10. 0 \in W
  BY <1>1, <1>9
<1>11. ASSUME NEW n \in Nat, n \in W PROVE n + 1 \in W
  <2> SUFFICES ASSUME n + 1 <= L PROVE N[n + 1] \in Nat
    OBVIOUS
  <2>1. N[n] \in Nat /\ Price(line[n + 1]) \in Nat
    BY <1>1, <1>11
  <2>2. N[n + 1] = N[n] + Price(line[n + 1])
    <3>1. n + 1 \in 1 .. L /\ (n + 1) - 1 = n
      BY <1>1
    <3> QED BY <1>9, <3>1
  <2> QED BY <2>1, <2>2
<1>12. Nat \subseteq W
  <2> HIDE DEF W
  <2> QED BY <1>10, <1>11, Induct
<1>13. \A k \in 0 .. L : N[k] \in Nat
  BY <1>1, <1>12
<1>14. N \in [0 .. L -> Nat]
  BY <1>9, <1>13
<1> QED BY <1>9, <1>14 DEF L, N

\* There is a longest part of the line that n bytes are enough for.
LEMMA ServedSome ==
  ASSUME req \in [Senders -> Request], NEW line \in Seq(Senders), NEW n \in Nat
  PROVE  /\ Served(line, n) \in 0 .. Len(line) /\ Need(line)[Served(line, n)] <= n
         /\ Served(line, n) < Len(line) => Need(line)[Served(line, n) + 1] > n
<1> DEFINE L == Len(line)
           N == Need(line)
           Best(k) == N[k] <= n /\ (k < L => N[k + 1] > n)
           S == {m \in Nat : m <= L => N[m] <= n \/ \E k \in 0 .. L : Best(k)}
<1>1. L \in Nat /\ N \in [0 .. L -> Nat] /\ N[0] = 0
  BY NeedSums
<1> HIDE DEF L, N
<1>2. 0 \in S
  BY <1>1
<1>3. ASSUME NEW m \in Nat, m \in S PROVE m + 1 \in S
  <2> SUFFICES ASSUME m + 1 <= L, ~(N[m + 1] <= n) PROVE \E k \in 0 .. L : Best(k)
    OBVIOUS
  <2>1. CASE N[m] <= n
    <3>1. N[m + 1] > n
      BY <1>1
    <3>2. m \in 0 .. L /\ Best(m)
      BY <1>1, <2>1, <3>1
    <3> QED BY <3>2
  <2>2. CASE ~(N[m] <= n)
    BY <1>1, <1>3, <2>2
  <2> QED BY <2>1, <2>2
<1>4. Nat \subseteq S
  <2> HIDE DEF S
  <2> QED BY <1>2, <1>3, Induct
<1>5. N[L] <= n \/ \E k \in 0 .. L : Best(k)
  BY <1>1, <1>4
<1>6. \E k \in 0 .. L : Best(k)
  <2>1. CASE N[L] <= n
    <3>1. L \in 0 .. L /\ Best(L)
      BY <1>1, <2>1
    <3> QED BY <3>1
  <2> QED BY <1>5, <2>1
<1>7. Served(line, n) = CHOOSE k \in 0 .. L : Best(k)
  BY DEF Served, L, N
<1>8. Served(line, n) \in 0 .. L /\ Best(Served(line, n))
  <2> HIDE DEF Best
  <2> QED BY <1>6, <1>7
<1> QED BY <1>8 DEF L, N

\* LastOf is the last place of a kind of byte, or 0.
LEMMA LastOfPlace ==
  ASSUME NEW c \in Seq(Bytes), NEW kind
  PROVE  /\ LastOf(c, kind) \in 0 .. Len(c)
         /\ LastOf(c, kind) > 0 => c[LastOf(c, kind)].kind = kind
         /\ \A j \in LastOf(c, kind) + 1 .. Len(c) : c[j].kind # kind
<1> DEFINE L == Len(c)
           Place(i, m) == (i > 0 => c[i].kind = kind) /\ \A j \in i + 1 .. m : c[j].kind # kind
           S == {m \in Nat : m <= L => \E i \in 0 .. m : Place(i, m)}
<1>1. L \in Nat
  OBVIOUS
<1> HIDE DEF L
<1>2. 0 \in S
  <2>1. Place(0, 0)
    OBVIOUS
  <2> QED BY <2>1
<1>3. ASSUME NEW m \in Nat, m \in S PROVE m + 1 \in S
  <2> SUFFICES ASSUME m + 1 <= L PROVE \E i \in 0 .. m + 1 : Place(i, m + 1)
    OBVIOUS
  <2>1. PICK i \in 0 .. m : Place(i, m)
    BY <1>1, <1>3
  <2>2. CASE c[m + 1].kind = kind
    <3>1. m + 1 \in 0 .. m + 1 /\ Place(m + 1, m + 1)
      BY <2>2
    <3> QED BY <3>1
  <2>3. CASE c[m + 1].kind # kind
    <3>1. i \in 0 .. m + 1 /\ Place(i, m + 1)
      BY <2>1, <2>3
    <3> QED BY <3>1
  <2> QED BY <2>2, <2>3
<1>4. Nat \subseteq S
  <2> HIDE DEF S
  <2> QED BY <1>2, <1>3, Induct
<1>5. \E i \in 0 .. L : Place(i, L)
  <2> HIDE DEF Place
  <2>1. L \in S /\ L <= L
    BY <1>1, <1>4
  <2> QED BY <2>1
<1>6. LastOf(c, kind) = CHOOSE i \in 0 .. L : Place(i, L)
  BY DEF LastOf, L
<1>7. LastOf(c, kind) \in 0 .. L /\ Place(LastOf(c, kind), L)
  <2> HIDE DEF Place
  <2> QED BY <1>5, <1>6
<1> QED BY <1>7 DEF L

\* Who leaves a line in which everybody waits once is not in it any more.
LEMMA LeavesLine ==
  ASSUME NEW S, NEW line \in Seq(S), NEW s \in S,
         \A i, j \in 1 .. Len(line) : line[i] = line[j] => i = j
  PROVE  /\ RemoveFirst(line, s) \in Seq(S)
         /\ \A i \in 1 .. Len(RemoveFirst(line, s)) :
              /\ RemoveFirst(line, s)[i] # s
              /\ \E j \in 1 .. Len(line) : RemoveFirst(line, s)[i] = line[j]
         /\ \A i, j \in 1 .. Len(RemoveFirst(line, s)) :
              RemoveFirst(line, s)[i] = RemoveFirst(line, s)[j] => i = j
<1>1. CASE ~ \E i \in 1 .. Len(line) : line[i] = s
  <2>1. RemoveFirst(line, s) = line
    BY <1>1 DEF RemoveFirst
  <2> QED BY <1>1, <2>1
<1>2. CASE \E i \in 1 .. Len(line) : line[i] = s
  <2>1. PICK n \in 1 .. Len(line) : line[n] = s
    BY <1>2
  <2>2. {i \in 1 .. Len(line) : line[i] = s} = {n}
    BY <2>1
  <2>3. Min({n}) = n
    BY <2>1 DEF Min
  <2>4. RemoveFirst(line, s) = SubSeq(line, 1, n - 1) \o SubSeq(line, n + 1, Len(line))
    BY <1>2, <2>2, <2>3 DEF RemoveFirst, SelectInSeq, RemoveAt
  <2> DEFINE out == RemoveFirst(line, s)
  <2>5. /\ out \in Seq(S) /\ Len(out) = Len(line) - 1
        /\ \A i \in 1 .. Len(line) - 1 : out[i] = IF i < n THEN line[i] ELSE line[i + 1]
    <3> DEFINE a == SubSeq(line, 1, n - 1)
               b == SubSeq(line, n + 1, Len(line))
    <3>1. /\ a \in Seq(S) /\ Len(a) = n - 1 /\ \A i \in 1 .. n - 1 : a[i] = line[i]
      BY <2>1
    <3>2. /\ b \in Seq(S) /\ Len(b) = Len(line) - n
          /\ \A i \in 1 .. Len(line) - n : b[i] = line[n + i]
      BY <2>1
    <3>3. out = a \o b
      BY <2>4
    <3> HIDE DEF a, b, out
    <3>4. out \in Seq(S) /\ Len(out) = Len(line) - 1
      <4>0. a \in Seq(S) /\ b \in Seq(S)
        BY <3>1, <3>2
      <4>1. a \o b \in Seq(S) /\ Len(a \o b) = Len(a) + Len(b)
        BY <4>0
      <4>2. Len(a) + Len(b) = Len(line) - 1
        BY <2>1, <3>1, <3>2
      <4> QED BY <3>3, <4>1, <4>2
    <3>5. \A i \in 1 .. Len(line) - 1 : out[i] = IF i < n THEN a[i] ELSE b[i - (n - 1)]
      BY <2>1, <3>1, <3>2, <3>3
    <3>6. ASSUME NEW i \in 1 .. Len(line) - 1
          PROVE  out[i] = IF i < n THEN line[i] ELSE line[i + 1]
      BY <2>1, <3>1, <3>2, <3>5
    <3> QED BY <3>4, <3>6
  <2> HIDE DEF out
  <2>6. \A i \in 1 .. Len(out) : out[i] # s /\ \E j \in 1 .. Len(line) : out[i] = line[j]
    BY <2>1, <2>5
  <2>7. \A i, j \in 1 .. Len(out) : out[i] = out[j] => i = j
    BY <2>1, <2>5
  <2> QED BY <2>5, <2>6, <2>7 DEF out
<1> QED BY <1>1, <1>2

(***************************************************************************)
(* Lines                                                                   *)
(***************************************************************************)

\* Whoever is served leaves its line; room is not overdrawn.
LEMMA SettleEffect ==
  ASSUME req \in [Senders -> Request], NEW f \in Room, NEW a, NEW b, NEW r, Lined(r, a, b),
         Settle(f, a, b, r)
  PROVE  /\ Lined(req', funds', places') /\ free' \in Room
         /\ \A s \in Senders : /\ req'[s].len = r[s].len /\ req'[s].paste = r[s].paste
                               /\ req'[s].more = r[s].more
<1> DEFINE k == IF a = <<>> THEN 0 ELSE Served(a, f.main)
           m == Smaller(Len(b), f.slots)
<1>1. /\ a \in Seq(Senders) /\ b \in Seq(Senders) /\ r \in [Senders -> Request]
      /\ f.main \in Nat /\ f.control \in Nat /\ f.slots \in Nat
  BY DEF Lined, Room
<1>2. /\ k \in 0 .. Len(a) /\ Need(a)[k] \in Nat /\ Need(a)[k] <= f.main
  <2>1. Need(a) \in [0 .. Len(a) -> Nat] /\ Need(a)[0] = 0
    BY <1>1, NeedSums
  <2>2. CASE a = <<>>
    <3>1. k = 0 /\ Len(a) = 0
      BY <2>2
    <3> QED BY <1>1, <2>1, <3>1
  <2>3. CASE a # <<>>
    <3>1. k = Served(a, f.main)
      BY <2>3
    <3> HIDE DEF k
    <3>2. Served(a, f.main) \in 0 .. Len(a) /\ Need(a)[Served(a, f.main)] <= f.main
      BY <1>1, ServedSome
    <3> QED BY <2>1, <3>1, <3>2
  <2> QED BY <2>2, <2>3
<1>3. m \in 0 .. Len(b) /\ m <= f.slots
  BY <1>1 DEF Smaller
<1>4. free' = IF k + m = 0 THEN f ELSE [f EXCEPT !.main = @ - Need(a)[k], !.slots = @ - m]
  BY DEF Settle
<1>5. funds' = SubSeq(a, k + 1, Len(a)) /\ places' = SubSeq(b, m + 1, Len(b))
  BY DEF Settle
<1>6. req' = IF k + m = 0 THEN r
             ELSE [s \in Senders |->
                    IF \E i \in 1 .. k : a[i] = s THEN [r[s] EXCEPT !.pc = "funded"]
                    ELSE IF \E i \in 1 .. m : b[i] = s THEN [r[s] EXCEPT !.pc = "ready"]
                    ELSE r[s]]
  BY DEF Settle
<1> HIDE DEF k, m
<1>7. free' \in Room
  <2>1. CASE k + m = 0
    BY <1>4, <2>1
  <2>2. CASE k + m # 0
    <3>1. f.main - Need(a)[k] \in Nat /\ f.slots - m \in Nat
      BY <1>1, <1>2, <1>3
    <3>2. free' = [f EXCEPT !.main = f.main - Need(a)[k], !.slots = f.slots - m]
      BY <1>4, <2>2 DEF Room
    <3> QED BY <3>1, <3>2 DEF Room
  <2> QED BY <2>1, <2>2
<1>8. /\ funds' \in Seq(Senders) /\ Len(funds') = Len(a) - k
      /\ \A i \in 1 .. Len(a) - k : funds'[i] = a[k + i]
  BY <1>1, <1>2, <1>5
<1>9. /\ places' \in Seq(Senders) /\ Len(places') = Len(b) - m
      /\ \A i \in 1 .. Len(b) - m : places'[i] = b[m + i]
  BY <1>1, <1>3, <1>5
<1>10. ASSUME NEW s \in Senders
       PROVE  /\ (\E i \in 1 .. k : a[i] = s) => req'[s] = [r[s] EXCEPT !.pc = "funded"]
              /\ (~ \E i \in 1 .. k : a[i] = s) /\ (\E i \in 1 .. m : b[i] = s)
                   => req'[s] = [r[s] EXCEPT !.pc = "ready"]
              /\ (~ \E i \in 1 .. k : a[i] = s) /\ (~ \E i \in 1 .. m : b[i] = s)
                   => req'[s] = r[s]
  <2>1. CASE k + m = 0
    <3>1. k = 0 /\ m = 0
      BY <1>2, <1>3, <2>1
    <3> QED BY <1>6, <2>1, <3>1
  <2>2. CASE k + m # 0
    BY <1>6, <2>2
  <2> QED BY <2>1, <2>2
<1>11. req' \in [Senders -> Request]
  <2>1. CASE k + m = 0
    BY <1>1, <1>6, <2>1
  <2>2. CASE k + m # 0
    <3>1. \A s \in Senders : /\ [r[s] EXCEPT !.pc = "funded"] \in Request
                             /\ [r[s] EXCEPT !.pc = "ready"] \in Request /\ r[s] \in Request
      BY <1>1 DEF Request
    <3> QED BY <1>6, <2>2, <3>1
  <2> QED BY <2>1, <2>2
<1>12. ASSUME NEW s \in Senders
       PROVE  /\ req'[s].len = r[s].len /\ req'[s].paste = r[s].paste /\ req'[s].more = r[s].more
              /\ \/ req'[s].pc = r[s].pc
                 \/ req'[s].pc = "funded" /\ \E i \in 1 .. k : a[i] = s
                 \/ req'[s].pc = "ready" /\ \E i \in 1 .. m : b[i] = s
  <2>1. r[s] \in Request
    BY <1>1
  <2>2. CASE \E i \in 1 .. k : a[i] = s
    BY <1>10, <2>1, <2>2 DEF Request
  <2>3. CASE (~ \E i \in 1 .. k : a[i] = s) /\ (\E i \in 1 .. m : b[i] = s)
    BY <1>10, <2>1, <2>3 DEF Request
  <2>4. CASE (~ \E i \in 1 .. k : a[i] = s) /\ (~ \E i \in 1 .. m : b[i] = s)
    BY <1>10, <2>4
  <2> QED BY <2>2, <2>3, <2>4
<1>13. \A s \in Senders : req'[s].pc \notin {"idle", "gone"} => req'[s].len > 0
  <2> SUFFICES ASSUME NEW s \in Senders, req'[s].pc \notin {"idle", "gone"} PROVE r[s].len > 0
    BY <1>12
  <2>1. r[s].pc \notin {"idle", "gone"}
    <3>1. CASE req'[s].pc = r[s].pc
      BY <3>1
    <3>2. CASE \E i \in 1 .. k : a[i] = s
      <4>1. PICK i \in 1 .. k : a[i] = s
        BY <3>2
      <4>2. i \in 1 .. Len(a)
        BY <1>1, <1>2
      <4>3. r[s].pc = "funds"
        BY <4>1, <4>2 DEF Lined
      <4> QED BY <4>3
    <3>3. CASE \E i \in 1 .. m : b[i] = s
      <4>1. PICK i \in 1 .. m : b[i] = s
        BY <3>3
      <4>2. i \in 1 .. Len(b)
        BY <1>1, <1>3
      <4>3. r[s].pc = "place"
        BY <4>1, <4>2 DEF Lined
      <4> QED BY <4>3
    <3> QED BY <1>12, <3>1, <3>2, <3>3
  <2> QED BY <2>1 DEF Lined
<1>14. ASSUME NEW i \in 1 .. Len(funds') PROVE req'[funds'[i]].pc = "funds"
  <2>1. k + i \in 1 .. Len(a) /\ funds'[i] = a[k + i] /\ a[k + i] \in Senders
    BY <1>1, <1>2, <1>8
  <2>2. r[a[k + i]].pc = "funds"
    BY <2>1 DEF Lined
  <2>3. \A j \in 1 .. k : a[j] # a[k + i]
    BY <1>1, <1>2, <2>1 DEF Lined
  <2>4. \A j \in 1 .. m : b[j] # a[k + i]
    BY <1>1, <1>3, <2>1, <2>2 DEF Lined
  <2> QED BY <1>12, <2>1, <2>2, <2>3, <2>4
<1>15. ASSUME NEW i \in 1 .. Len(places') PROVE req'[places'[i]].pc = "place"
  <2>1. m + i \in 1 .. Len(b) /\ places'[i] = b[m + i] /\ b[m + i] \in Senders
    BY <1>1, <1>3, <1>9
  <2>2. r[b[m + i]].pc = "place"
    BY <2>1 DEF Lined
  <2>3. \A j \in 1 .. m : b[j] # b[m + i]
    BY <1>1, <1>3, <2>1 DEF Lined
  <2>4. \A j \in 1 .. k : a[j] # b[m + i]
    BY <1>1, <1>2, <2>1, <2>2 DEF Lined
  <2> QED BY <1>12, <2>1, <2>2, <2>3, <2>4
<1>16. \A i, j \in 1 .. Len(funds') : funds'[i] = funds'[j] => i = j
  <2> SUFFICES ASSUME NEW i \in 1 .. Len(funds'), NEW j \in 1 .. Len(funds'), funds'[i] = funds'[j]
               PROVE  i = j
    OBVIOUS
  <2>1. k + i \in 1 .. Len(a) /\ k + j \in 1 .. Len(a) /\ a[k + i] = a[k + j]
    <3>1. k + i \in 1 .. Len(a) /\ funds'[i] = a[k + i]
      BY <1>1, <1>2, <1>8
    <3>2. k + j \in 1 .. Len(a) /\ funds'[j] = a[k + j]
      BY <1>1, <1>2, <1>8
    <3> QED BY <3>1, <3>2
  <2>2. k + i = k + j
    BY <2>1 DEF Lined
  <2> QED BY <1>2, <2>2
<1>17. \A i, j \in 1 .. Len(places') : places'[i] = places'[j] => i = j
  <2> SUFFICES ASSUME NEW i \in 1 .. Len(places'), NEW j \in 1 .. Len(places'),
                      places'[i] = places'[j]
               PROVE  i = j
    OBVIOUS
  <2>1. m + i \in 1 .. Len(b) /\ m + j \in 1 .. Len(b) /\ b[m + i] = b[m + j]
    <3>1. m + i \in 1 .. Len(b) /\ places'[i] = b[m + i]
      BY <1>1, <1>3, <1>9
    <3>2. m + j \in 1 .. Len(b) /\ places'[j] = b[m + j]
      BY <1>1, <1>3, <1>9
    <3> QED BY <3>1, <3>2
  <2>2. m + i = m + j
    BY <2>1 DEF Lined
  <2> QED BY <1>3, <2>2
<1>18. Lined(req', funds', places')
  BY <1>8, <1>9, <1>11, <1>13, <1>14, <1>15, <1>16, <1>17 DEF Lined
<1> QED BY <1>7, <1>12, <1>18

(***************************************************************************)
(* What waits for the program                                              *)
(***************************************************************************)

\* What waits is a sequence of chunks.
LEMMA WaitingType ==
  ASSUME QueueTypes
  PROVE  /\ Waiting \in Nat /\ (Waiting = 0 => pending = <<>> /\ chan = <<>>)
         /\ \A k \in 1 .. Waiting : At(k) \in Seq(Bytes)
<1>1. pending \in Seq(Chunks) /\ chan \in Seq(Chunks)
  BY DEF QueueTypes
<1>2. \A c \in Chunks : c.bytes \in Seq(Bytes)
  BY DEF Chunks
<1>3. Len(pending) \in Nat /\ Len(chan) \in Nat /\ Waiting = Len(pending) + Len(chan)
  BY <1>1 DEF Waiting
<1>4. ASSUME NEW k \in 1 .. Waiting PROVE At(k) \in Seq(Bytes)
  <2>1. CASE k <= Len(pending)
    <3>1. pending[k] \in Chunks
      BY <1>1, <1>3, <2>1
    <3> QED BY <1>2, <2>1, <3>1 DEF At
  <2>2. CASE ~(k <= Len(pending))
    <3>1. k - Len(pending) \in 1 .. Len(chan)
      BY <1>3, <2>2
    <3>2. chan[k - Len(pending)] \in Chunks
      BY <1>1, <3>1
    <3> QED BY <1>2, <2>2, <3>2 DEF At
  <2> QED BY <2>1, <2>2
<1> QED BY <1>1, <1>3, <1>4

\* While the mode is left alone, what may be read is what might have been.
LEMMA SameMode ==
  ASSUME UNCHANGED <<left, mode>>
  PROVE  /\ \A p : (Fresh(p)' <=> Fresh(p)) /\ (Known(p)' <=> Known(p))
         /\ \A b : State(b)' = State(b)
         /\ \A p, b : Allowed(p, b)' <=> Allowed(p, b)
         /\ \A c : Framing(c)' <=> Framing(c)
<1>1. \A p : (Fresh(p)' <=> Fresh(p)) /\ (Known(p)' <=> Known(p))
  BY DEF Fresh, Known
<1>2. \A b : State(b)' = State(b)
  BY <1>1 DEF State
<1>3. \A p, b : Allowed(p, b)' <=> Allowed(p, b)
  BY <1>1 DEF Allowed
<1>4. \A c : Framing(c)' <=> Framing(c)
  BY <1>2, <1>3 DEF Framing
<1> QED BY <1>1, <1>2, <1>3, <1>4

\* What is left alone stays true.
LEMMA KeepStreamed ==
  ASSUME Streamed, UNCHANGED <<chan, pending, written, inPaste, open, left, mode, inside>>
  PROVE  Streamed'
<1>1. \A k : At(k)' = At(k)
  BY DEF At
<1>2. Waiting' = Waiting
  BY DEF Waiting
<1>3. LastState' = LastState
  BY <1>1, <1>2, SameMode DEF LastState
<1>4. Stream'
  BY <1>1, <1>2, SameMode DEF Stream, Streamed
<1>5. Reading'
  BY <1>1, <1>2, SameMode DEF Reading, Streamed
<1>6. Opened'
  BY <1>3, SameMode DEF Opened, Streamed
<1>7. Since'
  BY <1>1, <1>2, SameMode DEF Since, Streamed
<1>8. KeepsReplies'
  BY <1>1, SameMode DEF KeepsReplies, Streamed
<1> QED BY <1>4, <1>5, <1>6, <1>7, <1>8 DEF Streamed

\* A chunk may be queued if it is well framed, goes on where what waits ends,
\* and leaves open the paste it does not end.
Fits(bytes, p) ==
  /\ bytes \in Seq(Bytes) /\ Framing(bytes) /\ Allowed(LastState, bytes[1])
  /\ p \in Paste \cup {None} /\ Known(p)
  /\ State(Final(bytes)) # None => p = State(Final(bytes))
  /\ Fresh(p) => State(Final(bytes)) = p
  /\ \A i \in 1 .. Len(bytes) : Known(bytes[i].paste)

\* Queueing such a chunk keeps the stream in order.
LEMMA Push ==
  ASSUME QueueTypes, Streamed, NEW x \in Chunks, Fits(x.bytes, open'),
         chan' = Append(chan, x), UNCHANGED <<pending, written, inPaste, left, mode, inside>>
  PROVE  Streamed'
<1> DEFINE c == x.bytes
<1>0. PICK W \in Nat : W = Waiting
  BY WaitingType
<1>1. /\ W \in Nat /\ Waiting' = W + 1 /\ Len(pending) \in Nat /\ Len(pending) <= W
      /\ (pending # <<>> => W > 0)
  BY <1>0 DEF QueueTypes, Waiting
<1>2. \A k \in 1 .. W : At(k)' = At(k)
  <2> SUFFICES ASSUME NEW k \in 1 .. W PROVE At(k)' = At(k)
    OBVIOUS
  <2>1. CASE k <= Len(pending)
    BY <2>1 DEF At
  <2>2. CASE ~(k <= Len(pending))
    <3>1. k - Len(pending) \in 1 .. Len(chan) /\ chan \in Seq(Chunks)
      BY <1>0, <1>1, <2>2 DEF Waiting, QueueTypes
    <3>2. chan'[k - Len(pending)] = chan[k - Len(pending)]
      BY <3>1
    <3> QED BY <2>2, <3>2 DEF At
  <2> QED BY <2>1, <2>2
<1>3. At(W + 1)' = c
  <2>1. chan \in Seq(Chunks) /\ W + 1 - Len(pending) = Len(chan) + 1 /\ ~(W + 1 <= Len(pending))
    BY <1>0, <1>1 DEF Waiting, QueueTypes
  <2>2. chan'[Len(chan) + 1] = x
    BY <2>1
  <2> QED BY <2>1, <2>2 DEF At
<1>4. /\ c \in Seq(Bytes) /\ Framing(c) /\ Allowed(LastState, c[1]) /\ c # <<>>
      /\ \A i \in 1 .. Len(c) : Known(c[i].paste)
  BY DEF Fits, Framing
<1> HIDE DEF c
<1>5. W > 0 => LastState = State(Final(At(W)))
  BY <1>0, <1>1 DEF LastState
<1>6. W = 0 => LastState = inside
  BY <1>0 DEF LastState
<1>7. LastState' = State(Final(c))
  <2>1. LastState' = State(Final(At(W + 1)))'
    BY <1>1 DEF LastState
  <2> QED BY <1>3, <2>1, SameMode
<1>8. Stream'
  <2>1. ASSUME NEW k \in 1 .. W + 1 PROVE Framing(At(k))'
    <3>1. CASE k = W + 1
      BY <1>3, <1>4, <3>1, SameMode
    <3>2. CASE k \in 1 .. W
      BY <1>0, <1>2, <3>2, SameMode DEF Streamed, Stream
    <3> QED BY <1>1, <3>1, <3>2
  <2>2. ASSUME NEW k \in 1 .. W PROVE Allowed(State(Final(At(k))), At(k + 1)[1])'
    <3>1. CASE k = W
      <4>1. At(k)' = At(W) /\ At(k + 1)' = c
        BY <1>2, <1>3, <3>1
      <4>2. Allowed(State(Final(At(W))), c[1])
        BY <1>1, <1>4, <1>5, <3>1
      <4> QED BY <4>1, <4>2, SameMode
    <3>2. CASE k \in 1 .. W - 1
      <4>1. At(k)' = At(k) /\ At(k + 1)' = At(k + 1)
        BY <1>1, <1>2, <3>2
      <4>2. Allowed(State(Final(At(k))), At(k + 1)[1])
        BY <1>0, <3>2 DEF Streamed, Stream
      <4> QED BY <4>1, <4>2, SameMode
    <3> QED BY <1>1, <3>1, <3>2
  <2> QED BY <1>1, <2>1, <2>2 DEF Stream
<1>9. Reading'
  <2>1. pending # <<>> => At(1)' = At(1)
    BY <1>1, <1>2
  <2>2. IF pending = <<>> THEN written = 0 ELSE written < Len(At(1)')
    BY <2>1 DEF Streamed, Reading
  <2>3. Allowed(inside, At(1)'[written + 1])
    <3>1. CASE W = 0
      <4>1. At(1)' = c /\ pending = <<>>
        BY <1>1, <1>3, <3>1
      <4>2. written = 0
        BY <4>1 DEF Streamed, Reading
      <4> QED BY <1>4, <1>6, <3>1, <4>1, <4>2
    <3>2. CASE W > 0
      BY <1>0, <1>1, <1>2, <3>2 DEF Streamed, Reading
    <3> QED BY <1>1, <3>1, <3>2
  <2> QED BY <2>2, <2>3, SameMode DEF Reading
<1>10. Opened'
  BY <1>7, SameMode DEF Opened, Fits, c
<1>11. Since'
  <2>1. Known(open') /\ Known(inside) /\ (inside # None => Fresh(inside))
    BY DEF Fits, Streamed, Since
  <2>2. ASSUME NEW k \in 1 .. W + 1 PROVE \A i \in 1 .. Len(At(k)') : Known(At(k)'[i].paste)
    <3>1. CASE k = W + 1
      BY <1>3, <1>4, <3>1
    <3>2. CASE k \in 1 .. W
      BY <1>0, <1>2, <3>2 DEF Streamed, Since
    <3> QED BY <1>1, <3>1, <3>2
  <2> QED BY <1>1, <2>1, <2>2, SameMode DEF Since
<1>12. KeepsReplies'
  <2>1. pending # <<>> => At(1)' = At(1)
    BY <1>1, <1>2
  <2> QED BY <2>1, SameMode DEF Streamed, KeepsReplies
<1> QED BY <1>8, <1>9, <1>10, <1>11, <1>12 DEF Streamed

(***************************************************************************)
(* Framing                                                                 *)
(***************************************************************************)

\* A framed text, markers before it and perhaps the end of its paste after it,
\* fits if its first byte may come next and the paste it leaves
\* open is its own, or is of the past.
LEMMA FrameFits ==
  ASSUME QueueTypes, NEW p \in Paste \cup {None}, NEW len \in Nat, len > 0,
         NEW before \in {<<>>, <<End>>} \cup {<<Start(q)>> : q \in Paste}
                          \cup {<<End>> \o <<Start(q)>> : q \in Paste},
         NEW after \in {<<>>, <<End>>}, NEW o \in Paste \cup {None},
         Fresh(p) /\ before # <<>> => Final(before).kind = "start" /\ Final(before).paste = p,
         before # <<>> /\ Final(before).kind = "start" => Final(before).paste = p,
         Known(p), Known(o),
         Allowed(LastState, IF before = <<>> THEN Text(p, len)[1] ELSE before[1]),
         IF after = <<>> /\ Fresh(p) THEN o = p ELSE ~Fresh(o)
  PROVE  Fits(before \o Text(p, len) \o after, o)
<1> DEFINE t == Text(p, len)
           x == before \o t
           c == x \o after
<1>1. /\ End \in Bytes /\ End.kind = "end" /\ End.paste = None
      /\ \A q \in Paste : Start(q) \in Bytes /\ Start(q).kind = "start" /\ Start(q).paste = q
  BY DEF End, Start, Bytes
<1>2. /\ t \in Seq(Bytes) /\ Len(t) = len
      /\ \A i \in 1 .. len :
           t[i] = [kind |-> "text", paste |-> p] /\ t[i].kind = "text" /\ t[i].paste = p
  BY DEF Text, Bytes
<1>3. /\ before \in Seq(Bytes) /\ Len(before) \in 0 .. 2 /\ (before = <<>> <=> Len(before) = 0)
      /\ \A i \in 1 .. Len(before) : before[i].kind # "text"
      /\ \A i \in 1 .. Len(before) - 1 : before[i] = End
      /\ \A i \in 1 .. Len(before) : before[i].kind = "end" => before[i] = End
  <2>1. CASE before = <<>>
    BY <2>1
  <2>2. CASE before = <<End>>
    BY <1>1, <2>2
  <2>3. CASE before \in {<<Start(q)>> : q \in Paste}
    <3>1. PICK q \in Paste : before = <<Start(q)>>
      BY <2>3
    <3> QED BY <1>1, <3>1
  <2>4. CASE before \in {<<End>> \o <<Start(q)>> : q \in Paste}
    <3>1. PICK q \in Paste : before = <<End>> \o <<Start(q)>>
      BY <2>4
    <3>2. Len(before) = 2 /\ before[1] = End /\ before[2] = Start(q) /\ before \in Seq(Bytes)
      BY <1>1, <3>1
    <3> QED BY <1>1, <3>2
  <2> QED BY <2>1, <2>2, <2>3, <2>4
<1>4. after \in Seq(Bytes) /\ Len(after) \in 0 .. 1 /\ (after = <<>> <=> Len(after) = 0)
      /\ \A i \in 1 .. Len(after) : after[i] = End
  <2>1. CASE after = <<>>
    BY <2>1
  <2>2. CASE after = <<End>>
    BY <1>1, <2>2
  <2> QED BY <2>1, <2>2
<1> HIDE DEF t
<1> DEFINE n == Len(before)
<1>5. /\ x \in Seq(Bytes) /\ Len(x) = n + len
      /\ \A i \in 1 .. n : x[i] = before[i]
      /\ \A i \in n + 1 .. n + len : x[i] = t[i - n]
  <2>1. before \in Seq(Bytes) /\ t \in Seq(Bytes) /\ Len(t) = len /\ n = Len(before) /\ n \in Nat
    BY <1>2, <1>3
  <2> HIDE DEF n
  <2>2. x \in Seq(Bytes) /\ Len(x) = n + len
    BY <2>1
  <2>3. \A i \in 1 .. n : x[i] = before[i]
    BY <2>1
  <2>4. \A i \in n + 1 .. n + len : x[i] = t[i - n]
    BY <2>1
  <2> QED BY <2>2, <2>3, <2>4
<1> HIDE DEF x
<1>6. /\ n \in 0 .. 2 /\ (before = <<>> <=> n = 0)
      /\ \A i \in 1 .. n : before[i] \in Bytes /\ before[i].kind # "text"
      /\ \A i \in 1 .. n - 1 : before[i] = End
      /\ \A i \in 1 .. n : before[i].kind = "end" => before[i] = End
  BY <1>3
<1> HIDE DEF n
<1>7. /\ c \in Seq(Bytes) /\ Len(c) = n + len + Len(after)
      /\ \A i \in 1 .. n + len : c[i] = x[i]
      /\ \A i \in n + len + 1 .. Len(c) : c[i] = after[i - (n + len)]
  <2>1. Len(x) = n + len /\ n + len \in Nat /\ DOMAIN x = 1 .. n + len /\ Len(after) \in Nat
    BY <1>4, <1>5, <1>6
  <2>2. c \in Seq(Bytes) /\ Len(c) = n + len + Len(after)
    BY <1>4, <1>5, <2>1
  <2>3. \A i \in 1 .. n + len : c[i] = x[i]
    BY <1>4, <1>5, <2>1
  <2>4. \A i \in n + len + 1 .. n + len + Len(after) : c[i] = after[i - (n + len)]
    BY <1>4, <1>5, <2>1
  <2> QED BY <2>2, <2>3, <2>4
<1> HIDE DEF c
<1>8. /\ n \in 0 .. 2 /\ Len(c) \in Nat /\ Len(c) >= n + len
      /\ \A i \in 1 .. n : c[i] = before[i]
      /\ \A i \in n + 1 .. n + len :
           c[i] = [kind |-> "text", paste |-> p] /\ c[i].kind = "text" /\ c[i].paste = p
      /\ \A i \in n + len + 1 .. Len(c) : c[i] = End
  <2>1. n + len \in Nat /\ Len(after) \in Nat /\ Len(c) = n + len + Len(after)
    BY <1>4, <1>7, <1>6
  <2>2. \A i \in 1 .. n : c[i] = before[i]
    BY <1>5, <1>7, <1>6
  <2>3. ASSUME NEW i \in n + 1 .. n + len
        PROVE  c[i] = [kind |-> "text", paste |-> p] /\ c[i].kind = "text" /\ c[i].paste = p
    <3>1. i \in 1 .. n + len /\ i - n \in 1 .. len
      BY <1>6
    <3>2. c[i] = t[i - n]
      BY <1>5, <1>7, <3>1
    <3> QED BY <1>2, <3>1, <3>2
  <2>4. ASSUME NEW i \in n + len + 1 .. Len(c) PROVE c[i] = End
    <3>1. i - (n + len) \in 1 .. Len(after)
      BY <2>1
    <3> QED BY <1>4, <1>7, <3>1
  <2> QED BY <1>6, <2>1, <2>2, <2>3, <2>4
<1>9. Len(c) = n + len \/ (Len(c) = n + len + 1 /\ after # <<>>)
  BY <1>4, <1>7, <1>6
<1>10. Final(c) = IF after = <<>> THEN [kind |-> "text", paste |-> p] ELSE End
  <2>1. CASE after = <<>>
    <3>1. Len(c) = n + len
      BY <1>4, <1>7, <1>8, <2>1
    <3> QED BY <1>8, <2>1, <3>1 DEF Final
  <2>2. CASE after # <<>>
    <3>1. Len(c) = n + len + 1
      BY <1>4, <1>7, <1>8, <2>2
    <3> QED BY <1>8, <2>2, <3>1 DEF Final
  <2> QED BY <2>1, <2>2
<1>11. Len(c) > 0 /\ c # <<>>
  BY <1>7, <1>8
<1>12. c[1] = IF before = <<>> THEN Text(p, len)[1] ELSE before[1]
  <2>1. CASE before = <<>>
    <3>1. n = 0 /\ 1 \in n + 1 .. n + len
      BY <1>6, <2>1
    <3>2. c[1] = [kind |-> "text", paste |-> p] /\ t[1] = [kind |-> "text", paste |-> p]
      BY <1>2, <1>8, <3>1
    <3> QED BY <2>1, <3>2 DEF t
  <2>2. CASE before # <<>>
    <3>1. 1 \in 1 .. n
      BY <1>6, <2>2
    <3> QED BY <1>8, <2>2, <3>1
  <2> QED BY <2>1, <2>2
<1>13. \A i \in 1 .. Len(c) : c[i].kind = "text" => i \in n + 1 .. n + len
  BY <1>1, <1>6, <1>8
<1>14. n > 0 => before[n] = Final(before)
  BY DEF Final, n
<1>15. ASSUME NEW i \in 1 .. Len(c) - 1 PROVE Allowed(State(c[i]), c[i + 1])
  <2>1. CASE i + 1 <= n
    <3>1. c[i] = End
      <4>1. i \in 1 .. n /\ i \in 1 .. n - 1
        BY <1>6, <2>1
      <4> QED BY <1>6, <1>8, <4>1
    <3>2. c[i + 1].kind # "text"
      BY <1>6, <1>8, <2>1
    <3> QED BY <1>1, <3>1, <3>2 DEF Allowed, State
  <2>2. CASE i = n
    <3>1. c[i] = Final(before) /\ c[i + 1].kind = "text" /\ c[i + 1].paste = p /\ before # <<>>
      BY <1>6, <1>8, <1>14, <2>2
    <3>2. CASE Fresh(p)
      <4>1. State(c[i]) = p
        BY <3>1, <3>2 DEF State
      <4> QED BY <3>1, <4>1 DEF Allowed
    <3>3. CASE ~Fresh(p)
      <4>1. State(c[i]) = None
        <5>1. c[i].kind = "start" => c[i].paste = p
          BY <3>1
        <5>2. c[i].kind \in {"start", "end"}
          BY <1>6, <1>8, <2>2, <3>1 DEF Bytes
        <5> QED BY <3>3, <5>1, <5>2 DEF State
      <4> QED BY <3>1, <3>3, <4>1 DEF Allowed
    <3> QED BY <3>2, <3>3
  <2>3. CASE i > n /\ i + 1 <= n + len
    <3>1. c[i].kind = "text" /\ c[i].paste = p /\ c[i + 1].kind = "text" /\ c[i + 1].paste = p
      BY <1>8, <2>3
    <3> QED BY <3>1 DEF Allowed, State
  <2>4. CASE i + 1 > n + len
    <3>1. c[i + 1] = End
      BY <1>8, <2>4
    <3> QED BY <1>1, <3>1 DEF Allowed
  <2> QED BY <1>8, <2>1, <2>2, <2>3, <2>4
<1>16. Framing(c)
  <2>1. Final(c).kind # "start"
    BY <1>1, <1>10
  <2>2. \A i, j \in 1 .. Len(c) :
          c[i].kind = "text" /\ c[j].kind = "text" => c[i].paste = c[j].paste
    BY <1>8, <1>13
  <2> QED BY <1>11, <1>15, <2>1, <2>2 DEF Framing
<1>17. \A i \in 1 .. Len(c) : c[i].paste \in {p, None}
  <2> SUFFICES ASSUME NEW i \in 1 .. Len(c) PROVE c[i].paste \in {p, None}
    OBVIOUS
  <2>1. CASE i <= n
    <3>1. c[i] = before[i] /\ before[i] \in Bytes
      BY <1>6, <1>8, <2>1
    <3>2. CASE i < n
      BY <1>1, <1>6, <3>1, <3>2
    <3>3. CASE i = n
      BY <1>1, <1>6, <1>14, <3>1, <3>3 DEF Bytes
    <3> QED BY <1>8, <2>1, <3>2, <3>3
  <2>2. CASE i > n
    BY <1>1, <1>8, <2>2
  <2> QED BY <1>8, <2>1, <2>2
<1>18. c = before \o Text(p, len) \o after
  BY DEF c, x, t
<1>19. Known(None)
  BY DEF Known
<1>20. State(Final(c)) = IF after = <<>> /\ Fresh(p) THEN p ELSE None
  <2>1. CASE after = <<>>
    <3>1. Final(c).kind = "text" /\ Final(c).paste = p
      BY <1>10, <2>1
    <3> QED BY <2>1, <3>1 DEF State
  <2>2. CASE after # <<>>
    <3>1. Final(c).kind = "end"
      BY <1>1, <1>10, <2>2
    <3> QED BY <2>2, <3>1 DEF State
  <2> QED BY <2>1, <2>2
<1>21. /\ State(Final(c)) # None => o = State(Final(c))
       /\ Fresh(o) => State(Final(c)) = o
  BY <1>20
<1>22. Allowed(LastState, c[1])
  BY <1>12
<1>23. \A i \in 1 .. Len(c) : Known(c[i].paste)
  BY <1>17, <1>19
<1>24. Fits(c, o)
  BY <1>7, <1>16, <1>21, <1>22, <1>23 DEF Fits
<1> QED BY <1>18, <1>24

\* If no paste is open for a program in paste mode, what waits ends in none.
LEMMA NoneOpen ==
  ASSUME Streamed, QueueTypes, OpenPaste = None
  PROVE  LastState = None /\ ~Fresh(open)
<1>1. CASE open = None
  BY <1>1 DEF Streamed, Opened, Fresh
<1>2. CASE open # None
  <2>1. ~mode
    BY <1>2 DEF OpenPaste, QueueTypes
  <2>2. ~Fresh(open)
    BY <1>2, <2>1 DEF Streamed, Since, Known, Fresh
  <2>3. LastState # None => Fresh(LastState)
    BY DEF LastState, State, Streamed, Since
  <2> QED BY <2>2, <2>3 DEF Streamed, Opened
<1> QED BY <1>1, <1>2

\* An end marker may always come next.
LEMMA EndAllowed == \A p : Allowed(p, End)
BY DEF Allowed, End

\* Input of a caller, of a mouse or of a client outside its pastes
LEMMA PlainFits ==
  ASSUME QueueTypes, Streamed, NEW len \in Nat, len > 0,
         NEW o \in {None, open}, OpenPaste # None => o = None
  PROVE  Fits((IF OpenPaste # None THEN <<End>> ELSE <<>>) \o Text(None, len), o)
<1> DEFINE before == IF OpenPaste # None THEN <<End>> ELSE <<>>
           t == Text(None, len)
<1>1. open \in Paste \cup {None} /\ Known(None) /\ Known(open) /\ ~Fresh(None)
  BY DEF QueueTypes, Known, Fresh, Streamed, Since
<1>2. Known(o) /\ o \in Paste \cup {None} /\ ~Fresh(o)
  BY <1>1, NoneOpen
<1>3. before # <<>> => before[1] = End /\ Final(before) = End /\ Len(before) = 1 /\ OpenPaste # None
  BY DEF Final
<1>4. before = <<>> => OpenPaste = None
  OBVIOUS
<1>5. before \in {<<>>, <<End>>}
  OBVIOUS
<1> HIDE DEF before
<1>6. End.kind = "end" /\ t[1].kind = "text" /\ t[1].paste = None
  BY DEF End, Text
<1>7. Allowed(LastState, IF before = <<>> THEN t[1] ELSE before[1])
  <2>1. CASE before = <<>>
    <3>1. LastState = None
      BY <1>4, <2>1, NoneOpen
    <3> QED BY <1>1, <1>6, <2>1, <3>1 DEF Allowed
  <2>2. CASE before # <<>>
    BY <1>3, <2>2, EndAllowed
  <2> QED BY <2>1, <2>2
<1>8. before # <<>> => Final(before).kind # "start"
  BY <1>3, <1>6
<1>9. Fits(before \o t \o <<>>, o)
  BY <1>1, <1>2, <1>5, <1>7, <1>8, FrameFits
<1>10. before \o t \o <<>> = before \o t
  <2>0. End \in Bytes /\ [kind |-> "text", paste |-> None] \in Bytes
    BY DEF Bytes, End
  <2>1. t \in Seq(Bytes) /\ before \in Seq(Bytes)
    <3>1. t \in Seq(Bytes)
      BY <2>0 DEF Text
    <3>2. before = <<>> \/ before = <<End>>
      BY <1>5
    <3>3. <<End>> \in Seq(Bytes) /\ <<>> \in Seq(Bytes)
      BY <2>0
    <3> HIDE DEF t
    <3> QED BY <3>1, <3>2, <3>3
  <2>2. before \o t \in Seq(Bytes)
    BY <2>1
  <2> QED BY <2>2
<1> QED BY <1>9, <1>10 DEF before

\* send_outside_paste keeps the stream.
LEMMA OutsideFits ==
  ASSUME QueueTypes, Streamed, NEW len \in Nat, len > 0
  PROVE  Fits(Outside(len).bytes, Outside(len).open)
<1> DEFINE o == IF OpenPaste # None THEN None ELSE open
<1>1. Fits((IF OpenPaste # None THEN <<End>> ELSE <<>>) \o Text(None, len), o)
  BY PlainFits
<1> QED BY <1>1 DEF Outside

\* close_open_pastes does too.
LEMMA EndFits ==
  ASSUME Streamed
  PROVE  Fits(<<End>>, None)
<1>1. End \in Bytes /\ End.kind = "end" /\ End.paste = None /\ Known(None) /\ ~Fresh(None)
  BY DEF End, Bytes, Known, Fresh
<1>2. State(End) = None
  BY <1>1 DEF State
<1>3. Framing(<<End>>)
  BY <1>1 DEF Framing, Final
<1> QED BY <1>1, <1>2, <1>3, EndAllowed DEF Fits, Final

\* send_input keeps the stream: it ends the paste of another, continues its own
\* and begins a new one with its marker.
LEMMA FramedFits ==
  ASSUME QueueTypes, Streamed, NEW s \in Clients, req[s] \in Request, req[s].len > 0
  PROVE  Fits(Framed(s).bytes, Framed(s).open)
<1> DEFINE r == req[s]
           continued == r.paste # None /\ open # None /\ open.client = s /\ open.id = r.paste
           p == IF continued THEN open ELSE [client |-> s, id |-> r.paste, since |-> left]
           ended == IF OpenPaste # None /\ ~continued THEN <<End>> ELSE <<>>
           after == IF r.more THEN <<>> ELSE <<End>>
<1>1. /\ r.len \in Nat /\ r.len > 0 /\ r.more \in BOOLEAN /\ r.paste \in Nat \cup {None}
      /\ open \in Paste \cup {None} /\ mode \in BOOLEAN /\ left \in Nat
      /\ Known(None) /\ Known(open) /\ ~Fresh(None)
  BY DEF QueueTypes, Known, Fresh, Streamed, Since, Request
<1>2. End.kind = "end" /\ after \in {<<>>, <<End>>} /\ (after = <<>> <=> r.more)
  BY <1>1 DEF End
<1>3. CASE continued
  <2>1. /\ Framed(s).bytes = <<>> \o <<>> \o Text(open, r.len) \o after
        /\ Framed(s).open = IF r.more THEN open ELSE None
    BY <1>3 DEF Framed
  <2>2. <<>> \o <<>> = <<>>
    OBVIOUS
  <2> DEFINE t == Text(open, r.len)
  <2>3. t[1].kind = "text" /\ t[1].paste = open
    BY <1>1 DEF Text
  <2>4. Allowed(LastState, t[1])
    BY <1>3, <2>3 DEF Allowed, Streamed, Opened
  <2> HIDE DEF after, t
  <2>5. Fits(<<>> \o t \o after, IF r.more THEN open ELSE None)
    BY <1>1, <1>2, <2>4, FrameFits DEF t
  <2> QED BY <2>1, <2>2, <2>5 DEF t
<1>4. CASE r.paste # None /\ ~continued /\ mode
  <2> DEFINE q == [client |-> s, id |-> r.paste, since |-> left]
             before == ended \o <<Start(q)>>
             t == Text(q, r.len)
  <2>1. /\ Framed(s).bytes = before \o t \o after
        /\ Framed(s).open = IF r.more THEN q ELSE None
    BY <1>4 DEF Framed
  <2>2. q \in Paste /\ q.since = left /\ q # None
    BY <1>1, <1>4, NoneAssumption DEF Paste
  <2>3. Fresh(q) /\ Known(q)
    BY <1>1, <1>4, <2>2 DEF Fresh, Known
  <2> HIDE DEF q
  <2>4. Start(q).kind = "start" /\ Start(q).paste = q
    BY DEF Start
  <2>5. /\ Final(before) = Start(q) /\ before # <<>>
        /\ before \in {<<Start(q)>>, <<End>> \o <<Start(q)>>}
        /\ before[1] = IF open = None THEN Start(q) ELSE End
    <3>1. CASE open = None
      <4>1. ended = <<>>
        BY <3>1 DEF OpenPaste
      <4>2. before = <<Start(q)>>
        <5>1. ended \o <<Start(q)>> = <<>> \o <<Start(q)>>
          BY <4>1
        <5> HIDE DEF ended
        <5> QED BY <5>1
      <4> QED BY <3>1, <4>2 DEF Final
    <3>2. CASE open # None
      <4>1. ended = <<End>>
        BY <1>4, <3>2 DEF OpenPaste
      <4>2. before = <<End>> \o <<Start(q)>>
        <5>1. ended \o <<Start(q)>> = <<End>> \o <<Start(q)>>
          BY <4>1
        <5> HIDE DEF ended
        <5> QED BY <5>1
      <4>3. Len(before) = 2 /\ before[1] = End /\ before[2] = Start(q)
        <5> HIDE DEF before
        <5> QED BY <4>2
      <4> HIDE DEF before
      <4> QED BY <3>2, <4>2, <4>3 DEF Final
    <3> QED BY <3>1, <3>2
  <2> HIDE DEF before, after
  <2>6. Allowed(LastState, before[1])
    <3>1. CASE open = None
      <4>1. LastState = None
        BY <3>1 DEF Streamed, Opened
      <4> QED BY <2>4, <2>5, <3>1, <4>1 DEF Allowed
    <3>2. CASE open # None
      BY <2>5, <3>2, EndAllowed
    <3> QED BY <3>1, <3>2
  <2>7. before \in {<<>>, <<End>>} \cup {<<Start(x)>> : x \in Paste}
                     \cup {<<End>> \o <<Start(x)>> : x \in Paste}
    BY <2>2, <2>5
  <2>8. Fits(before \o t \o after, IF r.more THEN q ELSE None)
    BY <1>1, <1>2, <2>2, <2>3, <2>4, <2>5, <2>6, <2>7, FrameFits
  <2> QED BY <2>1, <2>8
<1>5. CASE ~continued /\ (r.paste = None \/ ~mode)
  <2>1. /\ Framed(s).bytes = (IF OpenPaste # None THEN <<End>> ELSE <<>>) \o Text(None, r.len)
        /\ Framed(s).open = None
    BY <1>5 DEF Framed
  <2> QED BY <1>1, <2>1, PlainFits
<1> QED BY <1>1, <1>3, <1>4, <1>5

(***************************************************************************)
(* Reading                                                                 *)
(***************************************************************************)

\* The PTY task takes over a chunk: what waits is the same.
LEMMA RecvStream ==
  ASSUME QueueTypes, Streamed, Recv
  PROVE  Streamed'
<1>1. /\ chan \in Seq(Chunks) /\ pending \in Seq(Chunks) /\ chan # <<>>
      /\ pending' = Append(pending, [chan[1] EXCEPT !.slot = FALSE]) /\ chan' = Tail(chan)
      /\ UNCHANGED <<open, written, inPaste, left, mode, inside>>
  BY DEF Recv, progVars, QueueTypes
<1>2. /\ Len(chan) \in Nat /\ Len(chan) > 0 /\ Len(pending) \in Nat
      /\ Len(pending') = Len(pending) + 1 /\ Len(chan') = Len(chan) - 1
  BY <1>1
<1>3. PICK W \in Nat : W = Waiting
  BY WaitingType
<1>4. W = Len(pending) + Len(chan) /\ Waiting' = W /\ W > 0
  BY <1>2, <1>3 DEF Waiting
<1>5. [chan[1] EXCEPT !.slot = FALSE].bytes = chan[1].bytes
  <2>1. chan[1] \in Chunks
    BY <1>1, <1>2
  <2> QED BY <2>1 DEF Chunks
<1>6. ASSUME NEW k \in 1 .. W PROVE At(k)' = At(k)
  <2>1. CASE k <= Len(pending)
    <3>1. pending'[k] = pending[k] /\ k <= Len(pending')
      BY <1>1, <1>2, <2>1
    <3> QED BY <2>1, <3>1 DEF At
  <2>2. CASE k = Len(pending) + 1
    <3>1. pending'[k] = [chan[1] EXCEPT !.slot = FALSE] /\ k <= Len(pending')
      BY <1>1, <1>2, <2>2
    <3>2. ~(k <= Len(pending)) /\ k - Len(pending) = 1
      BY <1>2, <2>2
    <3>3. At(k)' = chan[1].bytes
      BY <1>5, <3>1 DEF At
    <3>4. At(k) = chan[1].bytes
      BY <3>2 DEF At
    <3> QED BY <3>3, <3>4
  <2>3. CASE k > Len(pending) + 1
    <3>1. /\ ~(k <= Len(pending')) /\ ~(k <= Len(pending))
          /\ k - Len(pending') \in 1 .. Len(chan) - 1 /\ k - Len(pending) = k - Len(pending') + 1
      BY <1>2, <1>4, <2>3
    <3>2. chan'[k - Len(pending')] = chan[k - Len(pending') + 1]
      BY <1>1, <1>2, <3>1
    <3>3. At(k)' = chan'[k - Len(pending')].bytes
      BY <3>1 DEF At
    <3>4. At(k) = chan[k - Len(pending)].bytes
      BY <3>1 DEF At
    <3> QED BY <3>1, <3>2, <3>3, <3>4
  <2> QED BY <1>2, <2>1, <2>2, <2>3
<1>7. Waiting = W /\ 1 \in 1 .. W /\ W \in 1 .. W
  BY <1>3, <1>4
<1>8. At(1)' = At(1) /\ pending' # <<>> /\ Framing(At(1)) /\ At(1) \in Seq(Bytes)
  BY <1>2, <1>6, <1>7, WaitingType DEF Streamed, Stream
<1>9. LastState' = LastState
  <2>1. LastState = State(Final(At(W)))
    BY <1>4, <1>7 DEF LastState
  <2>2. LastState' = State(Final(At(W)))'
    BY <1>4, <1>7 DEF LastState
  <2> QED BY <1>1, <1>6, <1>7, <2>1, <2>2, SameMode
<1>10. Stream'
  <2>1. \A k \in 1 .. W - 1 : k \in 1 .. W /\ k + 1 \in 1 .. W
    OBVIOUS
  <2> QED BY <1>1, <1>4, <1>6, <1>7, <2>1, SameMode DEF Streamed, Stream
<1>11. Reading'
  <2>1. written < Len(At(1))
    <3>1. CASE pending = <<>>
      <4>1. written = 0 /\ Len(At(1)) > 0
        BY <1>8, <3>1 DEF Streamed, Reading, Framing
      <4> QED BY <4>1
    <3>2. CASE pending # <<>>
      BY <3>2 DEF Streamed, Reading
    <3> QED BY <3>1, <3>2
  <2>2. Allowed(inside, At(1)[written + 1])
    BY <1>4, <1>7 DEF Streamed, Reading
  <2> QED BY <1>1, <1>8, <2>1, <2>2, SameMode DEF Reading
<1>12. Opened'
  BY <1>1, <1>9, SameMode DEF Streamed, Opened
<1>13. Since'
  BY <1>1, <1>4, <1>6, <1>7, SameMode DEF Streamed, Since
<1>14. KeepsReplies'
  <2>1. ASSUME At(1)[1].kind = "text", Fresh(At(1)[1].paste) PROVE inPaste
    <3>1. CASE pending = <<>>
      <4>1. written = 0 /\ Allowed(inside, At(1)[1])
        BY <1>4, <1>7, <3>1 DEF Streamed, Reading
      <4>2. inside = At(1)[1].paste /\ inside # None
        BY <2>1, <4>1 DEF Allowed, Fresh
      <4> QED BY <4>1, <4>2 DEF Streamed, KeepsReplies
    <3>2. CASE pending # <<>>
      BY <2>1, <3>2 DEF Streamed, KeepsReplies
    <3> QED BY <3>1, <3>2
  <2>2. written = 0 /\ inside # None => inPaste
    BY DEF Streamed, KeepsReplies
  <2> QED BY <1>1, <1>8, <2>1, <2>2, SameMode DEF KeepsReplies
<1> QED BY <1>10, <1>11, <1>12, <1>13, <1>14 DEF Streamed

\* What the program reads next
LEMMA ByteRead ==
  ASSUME QueueTypes, Streamed, pending # <<>>
  PROVE  /\ Waiting > 0 /\ At(1) = pending[1].bytes /\ At(1) \in Seq(Bytes)
         /\ written \in 0 .. Len(At(1)) - 1 /\ Byte = At(1)[written + 1] /\ Byte \in Bytes
         /\ Allowed(inside, Byte) /\ Known(Byte.paste)
<1>1. pending \in Seq(Chunks) /\ chan \in Seq(Chunks) /\ written \in Nat
  BY DEF QueueTypes
<1>2. Len(pending) \in Nat /\ Len(pending) > 0 /\ Waiting \in Nat /\ Waiting > 0
  BY <1>1 DEF Waiting
<1>3. At(1) = pending[1].bytes /\ At(1) \in Seq(Bytes) /\ 1 \in 1 .. Waiting
  BY <1>2, WaitingType DEF At
<1>4. written < Len(At(1)) /\ Allowed(inside, At(1)[written + 1])
  BY <1>2 DEF Streamed, Reading
<1>5. written \in 0 .. Len(At(1)) - 1 /\ written + 1 \in 1 .. Len(At(1))
  BY <1>1, <1>3, <1>4
<1>6. Byte = At(1)[written + 1] /\ Byte \in Bytes
  BY <1>3, <1>5 DEF Byte
<1>7. Known(Byte.paste)
  BY <1>3, <1>5, <1>6 DEF Streamed, Since
<1> QED BY <1>2, <1>3, <1>4, <1>5, <1>6, <1>7

\* Having read it, the program is in the paste that the stream says.
LEMMA InsideIsState ==
  ASSUME QueueTypes, Streamed, WriteInput
  PROVE  inside' = State(Byte) /\ inside' \in Paste \cup {None} /\ Known(inside')
         /\ (inside' # None => Fresh(inside'))
<1>1. pending # <<>>
  BY DEF WriteInput
<1>2. Byte \in Bytes /\ Allowed(inside, Byte) /\ Known(Byte.paste)
  BY <1>1, ByteRead
<1>3. inside' = IF Byte.kind = "start" /\ Byte.paste.since = left /\ mode THEN Byte.paste
                ELSE IF Byte.kind = "end" THEN None ELSE inside
  BY DEF WriteInput
<1>4. inside # None => Fresh(inside)
  BY DEF Streamed, Since
<1>5. \/ Byte.kind = "start" /\ Byte.paste \in Paste
      \/ Byte.kind = "end"
      \/ Byte.kind = "text" /\ Byte.paste \in Paste \cup {None}
  BY <1>2 DEF Bytes
<1> HIDE DEF Byte
<1>6. inside' = State(Byte)
  <2>1. CASE Byte.kind = "start" /\ Byte.paste \in Paste
    <3>1. Byte.paste # None
      BY <2>1, NoneAssumption
    <3>2. CASE Byte.paste.since = left
      BY <1>2, <1>3, <2>1, <3>1, <3>2 DEF Known, State, Fresh
    <3>3. CASE Byte.paste.since # left
      <4>1. inside = None
        BY <1>2, <2>1 DEF Allowed
      <4> QED BY <1>3, <2>1, <3>3, <4>1 DEF State, Fresh
    <3> QED BY <3>2, <3>3
  <2>2. CASE Byte.kind = "end"
    BY <1>3, <2>2 DEF State
  <2>3. CASE Byte.kind = "text"
    <3>1. inside' = inside
      BY <1>3, <2>3
    <3>2. CASE Fresh(Byte.paste)
      BY <1>2, <2>3, <3>1, <3>2 DEF Allowed, State
    <3>3. CASE ~Fresh(Byte.paste)
      <4>1. inside = None
        BY <1>2, <1>4, <2>3, <3>3 DEF Allowed
      <4> QED BY <2>3, <3>1, <3>3, <4>1 DEF State
    <3> QED BY <3>2, <3>3
  <2> QED BY <1>5, <2>1, <2>2, <2>3
<1>7. State(Byte) # None => State(Byte) = Byte.paste /\ Byte.kind # "end" /\ Fresh(Byte.paste)
  BY DEF State
<1>8. inside' \in Paste \cup {None}
  BY <1>5, <1>6, <1>7
<1>9. inside' # None => Fresh(inside')
  BY <1>6, <1>7
<1>10. Known(inside')
  BY <1>2, <1>6, <1>7 DEF Known
<1> QED BY <1>6, <1>8, <1>9, <1>10

\* A chunk that ends in the text of a fresh paste leaves the PTY task in it.
LEMMA InPasteAfterText ==
  ASSUME NEW c \in Seq(Bytes), Framing(c), State(Final(c)) # None,
         c[1].kind = "text" /\ Fresh(c[1].paste) => inPaste
  PROVE  InPasteAfter(c)
<1> DEFINE L == Len(c)
           p == Final(c).paste
           e == LastOf(c, "end")
           s == LastOf(c, "start")
<1>1. L \in Nat /\ L > 0 /\ Final(c) = c[L] /\ Final(c).kind = "text" /\ Fresh(p)
  <2>1. c # <<>> /\ Final(c).kind # "start"
    BY DEF Framing
  <2>2. L \in Nat /\ L > 0 /\ Final(c) = c[L] /\ c[L] \in Bytes
    BY <2>1 DEF Final
  <2>3. Final(c).kind # "end" /\ Fresh(p)
    BY DEF State
  <2>4. Final(c).kind \in {"start", "end", "text"}
    BY <2>2 DEF Bytes
  <2> QED BY <2>1, <2>2, <2>3, <2>4
<1>2. /\ e \in 0 .. L /\ (e > 0 => c[e].kind = "end")
      /\ \A j \in e + 1 .. L : c[j].kind # "end"
  BY LastOfPlace
<1>3. /\ s \in 0 .. L /\ (s > 0 => c[s].kind = "start")
      /\ \A j \in s + 1 .. L : c[j].kind # "start"
  BY LastOfPlace
<1>4. InPasteAfter(c) = IF s > e THEN TRUE ELSE IF e > 0 THEN FALSE ELSE inPaste
  BY DEF InPasteAfter
<1> HIDE DEF L, e, s, p
<1>5. CASE s > e
  BY <1>4, <1>5
<1>6. CASE ~(s > e)
  <2>1. ASSUME NEW i \in e + 1 .. L PROVE c[i].kind = "text" /\ c[i].paste = p
    <3>1. i \in 1 .. L /\ i \in s + 1 .. L /\ L \in 1 .. L
      BY <1>1, <1>2, <1>3, <1>6
    <3>2. c[i] \in Bytes
      BY <3>1 DEF L
    <3>3. c[i].kind \in {"start", "end", "text"}
      BY <3>2 DEF Bytes
    <3>4. c[i].kind = "text"
      BY <1>2, <1>3, <3>1, <3>3
    <3>5. c[i].paste = c[L].paste
      BY <1>1, <3>1, <3>4 DEF Framing, L
    <3> QED BY <1>1, <3>4, <3>5 DEF p
  <2>2. e < L
    BY <1>1, <1>2
  <2>3. e + 1 \in e + 1 .. L
    BY <1>1, <1>2, <2>2
  <2>4. c[e + 1].kind = "text" /\ c[e + 1].paste = p
    BY <2>1, <2>3
  <2>5. CASE e = 0
    <3>1. c[1].kind = "text" /\ Fresh(c[1].paste)
      BY <1>1, <2>4, <2>5
    <3>2. inPaste
      BY <3>1
    <3> QED BY <1>4, <1>6, <2>5, <3>2
  <2>6. CASE e > 0
    <3>1. e \in 1 .. L - 1 /\ c[e].kind = "end"
      BY <1>1, <1>2, <2>2, <2>6
    <3>2. Allowed(State(c[e]), c[e + 1])
      BY <3>1 DEF Framing, L
    <3>3. State(c[e]) = None
      BY <3>1 DEF State
    <3>4. p = None
      BY <1>1, <2>4, <3>2, <3>3 DEF Allowed
    <3> QED BY <1>1, <3>4 DEF Fresh
  <2> QED BY <1>2, <2>5, <2>6
<1> QED BY <1>5, <1>6

\* The program reads a byte in the middle of a chunk.
LEMMA MiddleStream ==
  ASSUME QueueTypes, Streamed, WriteInput, written + 1 # Len(pending[1].bytes)
  PROVE  Streamed'
<1>1. /\ pending # <<>> /\ written' = written + 1
      /\ UNCHANGED <<open, chan, left, mode, inPaste>>
  BY DEF WriteInput
<1>2. PICK n : pending' = [pending EXCEPT ![1].held = @ - n]
  BY DEF WriteInput
<1>3. /\ Waiting > 0 /\ At(1) = pending[1].bytes /\ At(1) \in Seq(Bytes)
      /\ written \in 0 .. Len(At(1)) - 1 /\ Byte = At(1)[written + 1]
  BY <1>1, ByteRead
<1>4. pending \in Seq(Chunks) /\ Len(pending) \in Nat /\ Len(pending) > 0
  BY <1>1 DEF QueueTypes
<1>5. /\ Len(pending') = Len(pending) /\ pending' # <<>>
      /\ \A k \in 1 .. Len(pending) : pending'[k].bytes = pending[k].bytes
  <2>1. DOMAIN pending' = 1 .. Len(pending) /\ Len(pending') = Len(pending)
    BY <1>2, <1>4
  <2>2. ASSUME NEW k \in 1 .. Len(pending) PROVE pending'[k].bytes = pending[k].bytes
    <3>1. pending[k] \in Chunks
      BY <1>4
    <3>2. CASE k = 1
      BY <1>2, <1>4, <3>1, <3>2 DEF Chunks
    <3>3. CASE k # 1
      BY <1>2, <1>4, <3>3
    <3> QED BY <3>2, <3>3
  <2> QED BY <1>4, <2>1, <2>2
<1>6. PICK W \in Nat : W = Waiting
  BY WaitingType
<1>7. Waiting' = W /\ W > 0 /\ Waiting = W
  BY <1>1, <1>3, <1>5, <1>6 DEF Waiting
<1>8. ASSUME NEW k \in 1 .. W PROVE At(k)' = At(k)
  BY <1>1, <1>4, <1>5 DEF At
<1>9. At(1)' = At(1) /\ 1 \in 1 .. W /\ W \in 1 .. W
  BY <1>7, <1>8
<1>10. LastState' = LastState
  <2>1. LastState = State(Final(At(W)))
    BY <1>7 DEF LastState
  <2>2. LastState' = State(Final(At(W)))'
    BY <1>7 DEF LastState
  <2> QED BY <1>1, <1>8, <1>9, <2>1, <2>2, SameMode
<1>11. Stream'
  <2>1. \A k \in 1 .. W - 1 : k \in 1 .. W /\ k + 1 \in 1 .. W
    OBVIOUS
  <2> QED BY <1>1, <1>7, <1>8, <2>1, SameMode DEF Streamed, Stream
<1>12. Reading'
  <2>1. written + 1 \in 1 .. Len(At(1)) - 1
    BY <1>3
  <2>2. Framing(At(1))
    BY <1>7, <1>9 DEF Streamed, Stream
  <2>3. Allowed(State(Byte), At(1)[written + 1 + 1])
    BY <1>3, <2>1, <2>2 DEF Framing
  <2>4. inside' = State(Byte)
    BY InsideIsState
  <2>5. Allowed(inside', At(1)[written + 1 + 1])
    BY <2>3, <2>4
  <2>6. written + 1 < Len(At(1))
    BY <1>3, <2>1
  <2> QED BY <1>1, <1>5, <1>9, <2>5, <2>6, SameMode DEF Reading
<1>13. Opened'
  BY <1>1, <1>10, SameMode DEF Streamed, Opened
<1>14. Since'
  <2>1. Known(inside') /\ (inside' # None => Fresh(inside')) /\ Known(open)
    BY InsideIsState DEF Streamed, Since
  <2>2. \A k \in 1 .. W : \A i \in 1 .. Len(At(k)) : Known(At(k)[i].paste)
    BY <1>7 DEF Streamed, Since
  <2> QED BY <1>1, <1>7, <1>8, <2>1, <2>2, SameMode DEF Since
<1>15. KeepsReplies'
  <2>1. written' # 0
    BY <1>1, <1>3
  <2> QED BY <1>1, <1>5, <1>9, <2>1, SameMode DEF Streamed, KeepsReplies
<1> QED BY <1>11, <1>12, <1>13, <1>14, <1>15 DEF Streamed

\* It reads the last byte of a chunk.
LEMMA ThroughStream ==
  ASSUME QueueTypes, Streamed, WriteInput, written + 1 = Len(pending[1].bytes)
  PROVE  Streamed'
<1>1. /\ pending # <<>> /\ pending' = Tail(pending) /\ written' = 0
      /\ inPaste' = InPasteAfter(pending[1].bytes)
      /\ UNCHANGED <<open, chan, left, mode>>
  BY DEF WriteInput
<1>2. /\ Waiting > 0 /\ At(1) = pending[1].bytes /\ At(1) \in Seq(Bytes)
      /\ Byte = Final(At(1))
  BY <1>1, ByteRead DEF Final
<1>3. inside' = State(Final(At(1)))
  BY <1>2, InsideIsState
<1>4. pending \in Seq(Chunks) /\ chan \in Seq(Chunks) /\ Len(pending) \in Nat /\ Len(pending) > 0
  BY <1>1 DEF QueueTypes
<1>5. /\ Len(pending') = Len(pending) - 1
      /\ \A k \in 1 .. Len(pending) - 1 : pending'[k] = pending[k + 1]
  BY <1>1, <1>4
<1>6. PICK W \in Nat : W = Waiting
  BY WaitingType
<1>7. Waiting = W /\ Waiting' = W - 1 /\ W > 0 /\ 1 \in 1 .. W /\ Len(pending) <= W
  BY <1>1, <1>2, <1>4, <1>5, <1>6 DEF Waiting
<1>8. ASSUME NEW k \in 1 .. W - 1 PROVE At(k)' = At(k + 1)
  <2>1. CASE k <= Len(pending) - 1
    <3>1. k <= Len(pending') /\ k + 1 <= Len(pending) /\ pending'[k] = pending[k + 1]
      BY <1>4, <1>5, <2>1
    <3> QED BY <3>1 DEF At
  <2>2. CASE ~(k <= Len(pending) - 1)
    <3>1. /\ ~(k <= Len(pending')) /\ ~(k + 1 <= Len(pending))
          /\ k - Len(pending') = k + 1 - Len(pending)
      BY <1>4, <1>5, <2>2
    <3>2. At(k)' = chan[k - Len(pending')].bytes
      BY <1>1, <3>1 DEF At
    <3>3. At(k + 1) = chan[k + 1 - Len(pending)].bytes
      BY <3>1 DEF At
    <3> QED BY <3>1, <3>2, <3>3
  <2> QED BY <2>1, <2>2
<1>9. Framing(At(1))
  BY <1>7 DEF Streamed, Stream
<1>10. LastState' = LastState
  <2>1. LastState = State(Final(At(W)))
    BY <1>7 DEF LastState
  <2>2. CASE W = 1
    <3>1. LastState' = inside'
      BY <1>7, <2>2 DEF LastState
    <3> QED BY <1>3, <2>1, <2>2, <3>1
  <2>3. CASE W > 1
    <3>1. LastState' = State(Final(At(W - 1)))'
      BY <1>7, <2>3 DEF LastState
    <3>2. At(W - 1)' = At(W)
      <4>1. W - 1 \in 1 .. W - 1 /\ W - 1 + 1 = W
        BY <2>3
      <4> QED BY <1>8, <4>1
    <3> QED BY <1>1, <2>1, <3>1, <3>2, SameMode
  <2> QED BY <1>7, <2>2, <2>3
<1>11. Stream'
  <2>1. ASSUME NEW k \in 1 .. W - 1 PROVE Framing(At(k))'
    <3>1. Framing(At(k + 1)) /\ At(k)' = At(k + 1)
      BY <1>7, <1>8 DEF Streamed, Stream
    <3> QED BY <1>1, <3>1, SameMode
  <2>2. ASSUME NEW k \in 1 .. W - 1 - 1 PROVE Allowed(State(Final(At(k))), At(k + 1)[1])'
    <3>1. k \in 1 .. W - 1 /\ k + 1 \in 1 .. W - 1
      OBVIOUS
    <3>2. Allowed(State(Final(At(k + 1))), At(k + 1 + 1)[1])
      BY <1>7, <3>1 DEF Streamed, Stream
    <3>3. At(k)' = At(k + 1) /\ At(k + 1)' = At(k + 1 + 1)
      BY <1>8, <3>1
    <3> QED BY <1>1, <3>2, <3>3, SameMode
  <2> QED BY <1>7, <2>1, <2>2 DEF Stream
<1>12. W > 1 => /\ At(1)' = At(2) /\ Framing(At(2)) /\ Allowed(inside', At(2)[1])
                /\ At(2) \in Seq(Bytes)
  <2> SUFFICES ASSUME W > 1
               PROVE  /\ At(1)' = At(2) /\ Framing(At(2)) /\ Allowed(inside', At(2)[1])
                      /\ At(2) \in Seq(Bytes)
    OBVIOUS
  <2>1. 1 \in 1 .. W - 1 /\ 2 \in 1 .. W
    OBVIOUS
  <2>2. At(1)' = At(2)
    BY <1>8, <2>1
  <2>3. Framing(At(2)) /\ At(2) \in Seq(Bytes)
    BY <1>7, <2>1, WaitingType DEF Streamed, Stream
  <2>4. Allowed(State(Final(At(1))), At(1 + 1)[1])
    BY <1>7, <2>1 DEF Streamed, Stream
  <2> QED BY <1>3, <2>2, <2>3, <2>4
<1>13. pending' # <<>> => W > 1
  BY <1>4, <1>5, <1>7, <1>1
<1>14. Reading'
  <2>1. pending' # <<>> => 0 < Len(At(1)')
    BY <1>12, <1>13 DEF Framing
  <2>2. W - 1 > 0 => Allowed(inside', At(1)'[0 + 1])
    BY <1>7, <1>12
  <2> QED BY <1>1, <1>7, <2>1, <2>2, SameMode DEF Reading
<1>15. Opened'
  BY <1>1, <1>10, SameMode DEF Streamed, Opened
<1>16. Since'
  <2>1. Known(inside') /\ (inside' # None => Fresh(inside')) /\ Known(open)
    BY InsideIsState DEF Streamed, Since
  <2>2. ASSUME NEW k \in 1 .. W - 1 PROVE \A i \in 1 .. Len(At(k)') : Known(At(k)'[i].paste)
    BY <1>7, <1>8 DEF Streamed, Since
  <2> QED BY <1>1, <1>7, <2>1, <2>2, SameMode DEF Since
<1>17. inside' # None => inPaste'
  <2> SUFFICES ASSUME inside' # None PROVE inPaste'
    OBVIOUS
  <2>1. At(1)[1].kind = "text" /\ Fresh(At(1)[1].paste) => inPaste
    BY <1>1 DEF Streamed, KeepsReplies
  <2>2. InPasteAfter(At(1))
    BY <1>2, <1>3, <1>9, <2>1, InPasteAfterText
  <2> QED BY <1>1, <1>2, <2>2
<1>18. KeepsReplies'
  <2>1. ASSUME pending' # <<>>, At(1)'[1].kind = "text", Fresh(At(1)'[1].paste) PROVE inPaste'
    <3>1. inside' = At(1)'[1].paste /\ inside' # None
      BY <1>12, <1>13, <2>1 DEF Allowed, Fresh
    <3> QED BY <1>17, <3>1
  <2> QED BY <1>1, <1>17, <2>1, SameMode DEF KeepsReplies
<1> QED BY <1>11, <1>14, <1>15, <1>16, <1>18 DEF Streamed

\* The program's output changes the mode: it leaves every paste, or none.
LEMMA OutputStream ==
  ASSUME QueueTypes, Streamed, NEW bracketed \in BOOLEAN, NEW query \in BOOLEAN,
         Output(bracketed, query)
  PROVE  Streamed'
<1>1. /\ mode' = bracketed /\ left' = (IF mode /\ ~bracketed THEN left + 1 ELSE left)
      /\ inside' = (IF bracketed THEN inside ELSE None) /\ inPaste' = (inPaste /\ bracketed)
      /\ UNCHANGED <<open, chan, pending, written>>
  BY DEF Output
<1>2. /\ left \in Nat /\ mode \in BOOLEAN
      /\ open \in Paste \cup {None} /\ inside \in Paste \cup {None}
  BY DEF QueueTypes
<1>3. \A q \in Paste : q.since \in Nat
  BY DEF Paste
<1>4. \A k : At(k)' = At(k)
  BY <1>1 DEF At
<1>5. PICK W \in Nat : W = Waiting
  BY WaitingType
<1>6. Waiting = W /\ Waiting' = W
  BY <1>1, <1>5 DEF Waiting
<1>7. \A k \in 1 .. W : \A i \in 1 .. Len(At(k)) :
        At(k)[i].paste \in Paste \cup {None} /\ Known(At(k)[i].paste)
  <2>1. \A b \in Bytes : b.paste \in Paste \cup {None}
    BY DEF Bytes
  <2> QED BY <1>6, <2>1, WaitingType DEF Streamed, Since
<1>8. \A k \in 1 .. W :
        At(k) \in Seq(Bytes) /\ Framing(At(k)) /\ Len(At(k)) \in Nat /\ Len(At(k)) > 0
  BY <1>6, WaitingType DEF Streamed, Stream, Framing
<1>9. Known(open) /\ Known(inside) /\ (inside # None => Fresh(inside))
  BY DEF Streamed, Since
<1>10. CASE mode /\ ~bracketed
  <2>1. left' = left + 1 /\ inside' = None /\ ~mode'
    BY <1>1, <1>10
  <2>2. ASSUME NEW q \in Paste \cup {None}, Known(q)
        PROVE  ~Fresh(q)' /\ Known(q)'
    <3>1. CASE q = None
      BY <3>1 DEF Fresh, Known
    <3>2. CASE q # None
      <4>1. q.since \in Nat /\ q.since <= left
        BY <1>3, <2>2, <3>2 DEF Known
      <4>2. q.since # left + 1 /\ q.since <= left + 1
        BY <1>2, <4>1
      <4> QED BY <2>1, <4>2 DEF Fresh, Known
    <3> QED BY <3>1, <3>2
  <2>3. \A k \in 1 .. W : \A i \in 1 .. Len(At(k)) :
          ~Fresh(At(k)[i].paste)' /\ Known(At(k)[i].paste)'
    BY <1>4, <1>7, <2>2
  <2>4. \A k \in 1 .. W : \A i \in 1 .. Len(At(k)) : (State(At(k)[i]) = None)'
    BY <1>4, <2>3 DEF State
  <2>5. \A k \in 1 .. W : \A i \in 1 .. Len(At(k)) : Allowed(None, At(k)[i])'
    BY <1>4, <2>3 DEF Allowed
  <2>6. \A k \in 1 .. W : (State(Final(At(k))) = None)'
    <3>1. \A k \in 1 .. W : Len(At(k)) \in 1 .. Len(At(k))
      BY <1>8
    <3> QED BY <1>4, <2>4, <3>1 DEF Final
  <2>7. (LastState = None)'
    <3>1. CASE W = 0
      BY <1>6, <2>1, <3>1 DEF LastState
    <3>2. CASE W > 0
      <4>1. LastState' = State(Final(At(W)))'
        BY <1>6, <3>2 DEF LastState
      <4>2. W \in 1 .. W
        BY <3>2
      <4> QED BY <2>6, <4>1, <4>2
    <3> QED BY <3>1, <3>2
  <2>8. ASSUME NEW k \in 1 .. W PROVE Framing(At(k))'
    <3>1. Framing(At(k)) /\ Len(At(k)) \in Nat
      BY <1>8
    <3>2. \A i \in 1 .. Len(At(k)) - 1 : i \in 1 .. Len(At(k)) /\ i + 1 \in 1 .. Len(At(k))
      BY <3>1
    <3>3. \A i \in 1 .. Len(At(k)) - 1 : Allowed(State(At(k)[i]), At(k)[i + 1])'
      BY <1>4, <2>4, <2>5, <3>2
    <3> QED BY <1>4, <3>1, <3>3 DEF Framing, Final
  <2>9. Stream'
    <3>1. ASSUME NEW k \in 1 .. W - 1 PROVE Allowed(State(Final(At(k))), At(k + 1)[1])'
      <4>1. k \in 1 .. W /\ k + 1 \in 1 .. W /\ 1 \in 1 .. Len(At(k + 1))
        BY <1>8
      <4> QED BY <1>4, <2>5, <2>6, <4>1
    <3> QED BY <1>6, <2>8, <3>1 DEF Stream
  <2>10. Reading'
    <3>1. IF pending = <<>> THEN written = 0 ELSE written < Len(At(1))
      BY DEF Streamed, Reading
    <3>2. ASSUME W > 0 PROVE Allowed(None, At(1)[written + 1])'
      <4>1. 1 \in 1 .. W /\ written \in Nat
        BY <3>2 DEF QueueTypes
      <4>2. written + 1 \in 1 .. Len(At(1))
        BY <1>8, <3>1, <4>1
      <4> QED BY <1>1, <1>4, <2>5, <4>1, <4>2
    <3> QED BY <1>1, <1>4, <1>6, <2>1, <3>1, <3>2 DEF Reading
  <2>11. Opened'
    BY <1>1, <1>2, <1>9, <2>2, <2>7 DEF Opened
  <2>12. Since'
    <3>1. Known(open)' /\ Known(None)'
      BY <1>1, <1>2, <1>9, <2>2 DEF Known
    <3> QED BY <1>4, <1>6, <2>1, <2>3, <3>1 DEF Since
  <2>13. KeepsReplies'
    <3>1. pending # <<>> => 1 \in 1 .. W /\ 1 \in 1 .. Len(At(1))
      <4>1. pending # <<>> => W > 0
        BY <1>6 DEF Waiting, QueueTypes
      <4> QED BY <1>8, <4>1
    <3> QED BY <1>1, <1>4, <2>1, <2>3, <3>1 DEF KeepsReplies
  <2> QED BY <2>9, <2>10, <2>11, <2>12, <2>13 DEF Streamed
<1>11. CASE ~(mode /\ ~bracketed)
  <2>1. left' = left /\ (mode => mode') /\ (~bracketed => ~mode)
    BY <1>1, <1>2, <1>11
  <2>2. inside' = inside
    BY <1>1, <1>9, <2>1 DEF Known, Fresh
  <2>3. /\ \A p : Fresh(p)' <=> Fresh(p)
        /\ \A p : Known(p) => Known(p)'
    BY <2>1 DEF Fresh, Known
  <2>4. \A b : State(b)' = State(b)
    BY <2>3 DEF State
  <2>5. \A p, b : Allowed(p, b)' <=> Allowed(p, b)
    BY <2>3 DEF Allowed
  <2>6. \A c : Framing(c)' <=> Framing(c)
    BY <2>4, <2>5 DEF Framing
  <2>7. LastState' = LastState
    BY <1>4, <1>6, <2>2, <2>4 DEF LastState
  <2>8. Stream'
    BY <1>4, <1>6, <2>4, <2>5, <2>6 DEF Streamed, Stream
  <2>9. Reading'
    BY <1>1, <1>4, <1>6, <2>2, <2>5 DEF Streamed, Reading
  <2>10. Opened'
    BY <1>1, <2>3, <2>7 DEF Streamed, Opened
  <2>11. Since'
    BY <1>1, <1>4, <1>6, <2>2, <2>3 DEF Streamed, Since
  <2>12. KeepsReplies'
    <3>1. CASE bracketed
      BY <1>1, <1>4, <2>2, <2>3, <3>1 DEF Streamed, KeepsReplies
    <3>2. CASE ~bracketed
      <4>1. inside = None
        BY <1>9, <2>1, <3>2 DEF Known, Fresh
      <4>2. ASSUME pending # <<>> PROVE ~Fresh(At(1)[1].paste)
        <5>1. W > 0
          BY <1>6, <4>2 DEF Waiting, QueueTypes
        <5>2. 1 \in 1 .. W /\ 1 \in 1 .. Len(At(1))
          BY <1>8, <5>1
        <5>3. Known(At(1)[1].paste)
          BY <1>7, <5>2
        <5> QED BY <2>1, <3>2, <5>3 DEF Known, Fresh
      <4> QED BY <1>1, <1>4, <2>2, <2>3, <4>1, <4>2 DEF KeepsReplies
    <3> QED BY <3>1, <3>2
  <2> QED BY <2>8, <2>9, <2>10, <2>11, <2>12 DEF Streamed
<1> QED BY <1>10, <1>11

(***************************************************************************)
(* Senders                                                                 *)
(***************************************************************************)

\* A sender that is in no line leaves or changes its request.
LEMMA Unlined ==
  ASSUME Lined(req, funds, places), NEW s \in Senders, NEW x \in Request,
         req[s].pc \notin {"funds", "place"} \/ (funds = <<>> /\ places = <<>>),
         x.pc \notin {"idle", "gone"} => x.len > 0
  PROVE  Lined([req EXCEPT ![s] = x], funds, places)
<1> DEFINE r == [req EXCEPT ![s] = x]
<1>1. r \in [Senders -> Request] /\ \A z \in Senders : r[z] = IF z = s THEN x ELSE req[z]
  BY DEF Lined
<1>2. \A i \in 1 .. Len(funds) : funds[i] \in Senders /\ funds[i] # s
  BY DEF Lined
<1>3. \A i \in 1 .. Len(places) : places[i] \in Senders /\ places[i] # s
  BY DEF Lined
<1> HIDE DEF r
<1>4. Lined(r, funds, places)
  BY <1>1, <1>2, <1>3 DEF Lined
<1> QED BY <1>4 DEF r

\* Idle is a request for nothing.
LEMMA IdleType == Idle \in Request /\ Idle.pc = "idle"
BY DEF Idle, Request

\* A sender joins the line it has to wait in.
LEMMA Joins ==
  ASSUME Lined(req, funds, places), NEW s \in Senders, NEW x \in Request, x.len > 0,
         req[s].pc \notin {"funds", "place"}, x.pc \in {"funds", "place", "ready"}
  PROVE  Lined([req EXCEPT ![s] = x], IF x.pc = "funds" THEN Append(funds, s) ELSE funds,
               IF x.pc = "place" THEN Append(places, s) ELSE places)
<1> DEFINE r == [req EXCEPT ![s] = x]
           a == IF x.pc = "funds" THEN Append(funds, s) ELSE funds
           b == IF x.pc = "place" THEN Append(places, s) ELSE places
<1>1. Lined(r, funds, places)
  BY Unlined
<1>2. r[s] = x /\ funds \in Seq(Senders) /\ places \in Seq(Senders)
  BY DEF Lined
<1>3. \A i \in 1 .. Len(funds) : funds[i] # s
  BY DEF Lined
<1>4. \A i \in 1 .. Len(places) : places[i] # s
  BY DEF Lined
<1> HIDE DEF r
<1>5. CASE x.pc = "funds"
  <2>1. a = Append(funds, s) /\ b = places
    BY <1>5
  <2>2. /\ a \in Seq(Senders) /\ Len(a) = Len(funds) + 1 /\ a[Len(funds) + 1] = s
        /\ \A i \in 1 .. Len(funds) : a[i] = funds[i]
    BY <1>2, <2>1
  <2> HIDE DEF a, b
  <2>3. \A i \in 1 .. Len(a) : r[a[i]].pc = "funds"
    BY <1>1, <1>2, <1>5, <2>2 DEF Lined
  <2>4. \A i, j \in 1 .. Len(a) : a[i] = a[j] => i = j
    BY <1>1, <1>2, <1>3, <2>2 DEF Lined
  <2>5. Lined(r, a, b)
    BY <1>1, <2>1, <2>2, <2>3, <2>4 DEF Lined
  <2> QED BY <2>5 DEF a, b, r
<1>6. CASE x.pc = "place"
  <2>1. b = Append(places, s) /\ a = funds
    BY <1>6
  <2>2. /\ b \in Seq(Senders) /\ Len(b) = Len(places) + 1 /\ b[Len(places) + 1] = s
        /\ \A i \in 1 .. Len(places) : b[i] = places[i]
    BY <1>2, <2>1
  <2> HIDE DEF a, b
  <2>3. \A i \in 1 .. Len(b) : r[b[i]].pc = "place"
    BY <1>1, <1>2, <1>6, <2>2 DEF Lined
  <2>4. \A i, j \in 1 .. Len(b) : b[i] = b[j] => i = j
    BY <1>1, <1>2, <1>4, <2>2 DEF Lined
  <2>5. Lined(r, a, b)
    BY <1>1, <2>1, <2>2, <2>3, <2>4 DEF Lined
  <2> QED BY <2>5 DEF a, b, r
<1>7. CASE x.pc = "ready"
  <2>1. a = funds /\ b = places
    BY <1>7
  <2> QED BY <1>1, <2>1 DEF r, a, b
<1> QED BY <1>5, <1>6, <1>7

(***************************************************************************)
(* Each step keeps the invariant.                                          *)
(***************************************************************************)

\* A step that leaves the queues and the program alone
LEMMA KeepQueue ==
  ASSUME IInv, UNCHANGED <<open, queueVars, closed, progVars>>
  PROVE  QueueTypes' /\ (~closed => Streamed)'
<1>1. UNCHANGED <<open, chan, pending, written, inPaste, replies, closed, mode, left, inside>>
  BY DEF queueVars, progVars
<1>2. QueueTypes'
  BY <1>1 DEF IInv, QueueTypes
<1>3. ~closed => Streamed'
  BY <1>1, KeepStreamed DEF IInv
<1> QED BY <1>1, <1>2, <1>3

\* reserve
LEMMA AskKeeps ==
  ASSUME IInv, NEW s \in Senders, NEW len \in Nat, len > 0, NEW paste \in Nat \cup {None},
         NEW more \in BOOLEAN, Ask(s, len, paste, more),
         pasting' \in [Clients -> Nat \cup {None}], pastes' \in [Clients -> Nat]
  PROVE  IInv'
<1> DEFINE cost == Cost(len, Budget)
           pc == IF funds # <<>> \/ cost > free.main THEN "funds"
                 ELSE IF places # <<>> \/ free.slots = 0 THEN "place" ELSE "ready"
           x == [pc |-> pc, len |-> len, paste |-> paste, more |-> more]
<1>1. /\ req[s].pc = "idle" /\ ~closed
      /\ req' = [req EXCEPT ![s] = x]
      /\ funds' = (IF pc = "funds" THEN Append(funds, s) ELSE funds)
      /\ places' = (IF pc = "place" THEN Append(places, s) ELSE places)
      /\ free' = [free EXCEPT !.main = IF pc = "funds" THEN @ ELSE @ - cost,
                              !.slots = IF pc = "ready" THEN @ - 1 ELSE @]
      /\ UNCHANGED <<open, queueVars, closed, progVars>>
  BY DEF Ask
<1>2. cost \in Nat
  BY CostType, BudgetAssumption
<1>3. /\ free.main \in Nat /\ free.slots \in Nat /\ free \in Room /\ Lined(req, funds, places)
  BY DEF IInv, SenderTypes, Room
<1>4. /\ pc \in {"funds", "place", "ready"} /\ (pc # "funds" => cost <= free.main)
      /\ (pc = "ready" => free.slots > 0)
  BY <1>2, <1>3
<1> HIDE DEF cost, pc
<1>5. x \in Request /\ x.len > 0 /\ x.pc = pc
  BY <1>4 DEF Request
<1> HIDE DEF x
<1>6. Lined(req', funds', places')
  BY <1>1, <1>3, <1>4, <1>5, Joins
<1>7. free' \in Room
  <2> DEFINE m == IF pc = "funds" THEN free.main ELSE free.main - cost
             n == IF pc = "ready" THEN free.slots - 1 ELSE free.slots
  <2>1. m \in Nat /\ n \in Nat
    BY <1>2, <1>3, <1>4
  <2>2. free' = [free EXCEPT !.main = m, !.slots = n]
    BY <1>1, <1>3 DEF Room
  <2> HIDE DEF m, n
  <2> QED BY <1>3, <2>1, <2>2 DEF Room
<1>8. SenderTypes'
  BY <1>6, <1>7 DEF SenderTypes
<1>9. Shut'
  BY <1>1 DEF Shut
<1> QED BY <1>1, <1>8, <1>9, KeepQueue DEF IInv

\* A frame from an attach client
LEMMA ClientFrameKeeps ==
  ASSUME IInv, NEW c \in Clients, ClientFrame(c)
  PROVE  IInv'
<1>1. pasting \in [Clients -> Nat \cup {None}] /\ pastes \in [Clients -> Nat] /\ c \in Senders
  BY DEF IInv, SenderTypes, Senders
<1>2. CASE /\ Ask(c, 1, None, FALSE)
           /\ pasting' = [pasting EXCEPT ![c] = None] /\ UNCHANGED pastes
  <2>1. pasting' \in [Clients -> Nat \cup {None}] /\ pastes' \in [Clients -> Nat]
    BY <1>1, <1>2
  <2>2. Ask(c, 1, None, FALSE)
    BY <1>2
  <2>3. 1 \in Nat /\ 1 > 0 /\ None \in Nat \cup {None} /\ FALSE \in BOOLEAN
    OBVIOUS
  <2> QED BY <1>1, <2>1, <2>2, <2>3, AskKeeps
<1>3. ASSUME NEW more \in BOOLEAN, NEW id,
             id = IF pasting[c] = None THEN pastes[c] + 1 ELSE pasting[c],
             Ask(c, 1, id, more), pastes' = [pastes EXCEPT ![c] = Max({@, id})],
             pasting' = [pasting EXCEPT ![c] = IF more THEN id ELSE None]
      PROVE  IInv'
  <2>1. id \in Nat /\ pastes[c] \in Nat
    BY <1>1, <1>3
  <2>2. Max({pastes[c], id}) \in Nat
    <3>1. PICK x \in {pastes[c], id} : \A y \in {pastes[c], id} : y <= x
      <4>1. pastes[c] <= id \/ id <= pastes[c]
        BY <2>1
      <4> QED BY <2>1, <4>1
    <3>2. Max({pastes[c], id}) \in {pastes[c], id}
      BY <3>1 DEF Max
    <3> QED BY <2>1, <3>2
  <2>3. pastes' = [pastes EXCEPT ![c] = Max({pastes[c], id})]
    BY <1>1, <1>3
  <2>4. pasting' \in [Clients -> Nat \cup {None}] /\ pastes' \in [Clients -> Nat]
    BY <1>1, <1>3, <2>1, <2>2, <2>3
  <2> QED BY <1>1, <1>3, <2>1, <2>4, AskKeeps
<1>4. \/ /\ Ask(c, 1, None, FALSE)
         /\ pasting' = [pasting EXCEPT ![c] = None] /\ UNCHANGED pastes
      \/ \E more \in BOOLEAN : \E id :
            /\ id = IF pasting[c] = None THEN pastes[c] + 1 ELSE pasting[c]
            /\ Ask(c, 1, id, more) /\ pastes' = [pastes EXCEPT ![c] = Max({@, id})]
            /\ pasting' = [pasting EXCEPT ![c] = IF more THEN id ELSE None]
  BY DEF ClientFrame
<1> QED BY <1>2, <1>3, <1>4

\* A call of an RPC caller
LEMMA CallerSendsKeeps ==
  ASSUME IInv, NEW s \in Callers, CallerSends(s)
  PROVE  IInv'
<1>1. PICK len \in Lengths : Ask(s, len, None, FALSE)
  BY DEF CallerSends
<1>2. len \in Nat /\ len > 0 /\ s \in Senders
  BY LengthsAssumption DEF Senders
<1>3. pasting' \in [Clients -> Nat \cup {None}] /\ pastes' \in [Clients -> Nat]
  BY DEF CallerSends, IInv, SenderTypes
<1> QED BY <1>1, <1>2, <1>3, AskKeeps

\* A sender whose bytes have come goes on to the slot.
LEMMA PollKeeps ==
  ASSUME IInv, NEW s \in Senders, Poll(s)
  PROVE  IInv'
<1> DEFINE now == places = <<>> /\ free.slots > 0
           x == [req[s] EXCEPT !.pc = IF now THEN "ready" ELSE "place"]
<1>1. /\ req[s].pc = "funded" /\ ~closed
      /\ req' = [req EXCEPT ![s].pc = IF now THEN "ready" ELSE "place"]
      /\ places' = (IF now THEN places ELSE Append(places, s))
      /\ free' = (IF now THEN [free EXCEPT !.slots = @ - 1] ELSE free)
      /\ UNCHANGED <<funds, pasting, pastes, open, queueVars, closed, progVars>>
  BY DEF Poll
<1>2. /\ free.slots \in Nat /\ free \in Room /\ Lined(req, funds, places) /\ req[s] \in Request
      /\ req[s].len > 0
  BY <1>1 DEF IInv, SenderTypes, Room, Lined
<1>3. req' = [req EXCEPT ![s] = x]
  BY <1>1, <1>2 DEF Lined
<1>4. x \in Request /\ x.len > 0 /\ x.pc = IF now THEN "ready" ELSE "place"
  BY <1>2 DEF Request
<1>5. funds' = (IF x.pc = "funds" THEN Append(funds, s) ELSE funds)
      /\ places' = (IF x.pc = "place" THEN Append(places, s) ELSE places)
  BY <1>1, <1>4
<1>6. x.pc \in {"funds", "place", "ready"}
  BY <1>4
<1>7. free' \in Room
  BY <1>1, <1>2 DEF Room
<1> HIDE DEF x
<1>8. Lined(req', funds', places')
  BY <1>1, <1>2, <1>3, <1>4, <1>5, <1>6, Joins
<1>9. SenderTypes' /\ Shut'
  BY <1>1, <1>7, <1>8 DEF SenderTypes, IInv, Shut
<1> QED BY <1>1, <1>9, KeepQueue DEF IInv

\* Who gives up leaves its line.
LEMMA GiveUpLines ==
  ASSUME Lined(req, funds, places), NEW s \in Senders
  PROVE  /\ Lined([req EXCEPT ![s] = Idle], RemoveFirst(funds, s), RemoveFirst(places, s))
         /\ \A i \in 1 .. Len(RemoveFirst(funds, s)) :
              RemoveFirst(funds, s)[i] \in Senders /\ RemoveFirst(funds, s)[i] # s
<1> DEFINE a == RemoveFirst(funds, s)
           b == RemoveFirst(places, s)
           r == [req EXCEPT ![s] = Idle]
<1>1. Lined(req, funds, places) /\ req \in [Senders -> Request]
  BY DEF Lined
<1>2. /\ a \in Seq(Senders)
      /\ \A i \in 1 .. Len(a) : a[i] # s /\ \E j \in 1 .. Len(funds) : a[i] = funds[j]
      /\ \A i, j \in 1 .. Len(a) : a[i] = a[j] => i = j
  BY <1>1, LeavesLine DEF Lined
<1>3. /\ b \in Seq(Senders)
      /\ \A i \in 1 .. Len(b) : b[i] # s /\ \E j \in 1 .. Len(places) : b[i] = places[j]
      /\ \A i, j \in 1 .. Len(b) : b[i] = b[j] => i = j
  BY <1>1, LeavesLine DEF Lined
<1>4. r \in [Senders -> Request] /\ r[s] = Idle /\ \A z \in Senders : z # s => r[z] = req[z]
  BY <1>1, IdleType
<1> HIDE DEF a, b, r
<1>5. \A z \in Senders : r[z].pc \notin {"idle", "gone"} => r[z].len > 0
  BY <1>1, <1>4, IdleType DEF Lined
<1>6. ASSUME NEW i \in 1 .. Len(a) PROVE r[a[i]].pc = "funds"
  <2>1. PICK j \in 1 .. Len(funds) : a[i] = funds[j]
    BY <1>2
  <2>2. a[i] # s /\ a[i] \in Senders
    BY <1>2
  <2>3. req[a[i]].pc = "funds"
    BY <1>1, <2>1 DEF Lined
  <2> QED BY <1>4, <2>2, <2>3
<1>7. ASSUME NEW i \in 1 .. Len(b) PROVE r[b[i]].pc = "place"
  <2>1. PICK j \in 1 .. Len(places) : b[i] = places[j]
    BY <1>3
  <2>2. b[i] # s /\ b[i] \in Senders
    BY <1>3
  <2>3. req[b[i]].pc = "place"
    BY <1>1, <2>1 DEF Lined
  <2> QED BY <1>4, <2>2, <2>3
<1>8. Lined(r, a, b)
  BY <1>2, <1>3, <1>4, <1>5, <1>6, <1>7 DEF Lined
<1>9. \A i \in 1 .. Len(a) : a[i] \in Senders /\ a[i] # s
  BY <1>2
<1> QED BY <1>8, <1>9 DEF a, b, r

\* What a sender held goes back to what is free.
LEMMA RoomBack ==
  ASSUME NEW g \in Room, NEW n \in Nat, NEW e \in Nat
  PROVE  LET f == [g EXCEPT !.main = @ + n, !.slots = @ + e]
         IN  f \in Room /\ f.main = g.main + n /\ f.slots = g.slots + e
<1> DEFINE h == [g EXCEPT !.main = @ + n]
<1>1. g.main + n \in Nat /\ g.slots + e \in Nat
  BY DEF Room
<1>2. h \in Room /\ h.main = g.main + n /\ h.slots = g.slots
  BY <1>1 DEF Room
<1>3. [g EXCEPT !.main = @ + n, !.slots = @ + e] = [h EXCEPT !.slots = g.slots + e]
  OBVIOUS
<1> HIDE DEF h
<1>4. [h EXCEPT !.slots = g.slots + e] \in Room /\ [h EXCEPT !.slots = g.slots + e].main = h.main
      /\ [h EXCEPT !.slots = g.slots + e].slots = g.slots + e
  BY <1>1, <1>2 DEF Room
<1> QED BY <1>2, <1>3, <1>4

\* A sender gives up: what it held goes to the next in line.
LEMMA GiveUpKeeps ==
  ASSUME IInv, NEW s \in Senders, GiveUp(s)
  PROVE  IInv'
<1> DEFINE n == IF req[s].pc = "funds" THEN 0 ELSE Price(s)
           e == IF req[s].pc = "ready" THEN 1 ELSE 0
           f == [free EXCEPT !.main = @ + n, !.slots = @ + e]
           a == RemoveFirst(funds, s)
           b == RemoveFirst(places, s)
           r == [req EXCEPT ![s] = Idle]
<1>1. /\ ~closed /\ Settle(f, a, b, r)
      /\ UNCHANGED <<pasting, pastes, open, queueVars, closed, progVars>>
  BY DEF GiveUp
<1>2. Lined(req, funds, places) /\ free \in Room /\ req \in [Senders -> Request]
  BY DEF IInv, SenderTypes, Lined
<1>3. n \in Nat /\ e \in Nat
  BY <1>2, PriceType
<1> HIDE DEF n, e
<1>4. f \in Room
  BY <1>2, <1>3, RoomBack
<1>5. Lined(r, a, b)
  BY <1>2, GiveUpLines
<1> HIDE DEF a, b, r, f
<1>6. Lined(req', funds', places') /\ free' \in Room
  BY <1>1, <1>2, <1>4, <1>5, SettleEffect
<1>7. SenderTypes' /\ Shut'
  BY <1>1, <1>6 DEF SenderTypes, IInv, Shut
<1> QED BY <1>1, <1>7, KeepQueue DEF IInv

\* A sender sees that the task is gone.
LEMMA SeesClosedKeeps ==
  ASSUME IInv, NEW s \in Senders, SeesClosed(s)
  PROVE  IInv'
<1>1. /\ closed /\ req' = [req EXCEPT ![s] = Idle]
      /\ UNCHANGED <<pasting, pastes, roomVars, open, queueVars, closed, progVars>>
  BY DEF SeesClosed
<1>2. UNCHANGED <<funds, places, free, pasting, pastes>> /\ funds = <<>> /\ places = <<>>
  BY <1>1 DEF roomVars, IInv, Shut
<1>3. Lined([req EXCEPT ![s] = Idle], funds, places)
  BY <1>2, Unlined, IdleType DEF IInv, SenderTypes
<1>4. SenderTypes' /\ Shut'
  BY <1>1, <1>2, <1>3 DEF SenderTypes, IInv, Shut
<1> QED BY <1>1, <1>4, KeepQueue DEF IInv

\* A chunk on its way
LEMMA QueueType ==
  ASSUME QueueTypes, NEW x \in Chunks, chan' = Append(chan, x), open' \in Paste \cup {None},
         UNCHANGED <<pending, written, inPaste, replies, closed, progVars>>
  PROVE  QueueTypes'
<1>1. UNCHANGED <<pending, written, inPaste, replies, closed, mode, left, inside>>
  BY DEF progVars
<1>2. chan' \in Seq(Chunks)
  BY DEF QueueTypes
<1> QED BY <1>1, <1>2 DEF QueueTypes

\* A sender queues its chunk.
LEMMA SendKeeps ==
  ASSUME IInv, NEW s \in Senders, Send(s)
  PROVE  IInv'
<1> DEFINE framed == IF s \in Clients THEN Framed(s) ELSE Outside(req[s].len)
           x == Chunk(framed.bytes, "main", Price(s), TRUE)
<1>1. /\ req[s].pc = "ready" /\ req' = [req EXCEPT ![s] = Idle]
      /\ IF ~closed THEN chan' = Append(chan, x) /\ open' = framed.open ELSE UNCHANGED <<chan, open>>
      /\ UNCHANGED <<pasting, pastes, roomVars, pending, written, inPaste, replies, closed, progVars>>
  BY DEF Send
<1>2. /\ UNCHANGED <<funds, places, free, mode, left, inside>>
      /\ QueueTypes /\ Lined(req, funds, places) /\ Shut
  BY <1>1 DEF roomVars, progVars, IInv, SenderTypes
<1>3. req[s] \in Request /\ req[s].len \in Nat /\ req[s].len > 0 /\ Price(s) \in Nat
  BY <1>1, <1>2, PriceType DEF Lined, Request
<1>4. Lined([req EXCEPT ![s] = Idle], funds, places)
  BY <1>1, <1>2, Unlined, IdleType
<1>5. SenderTypes' /\ Shut'
  BY <1>1, <1>2, <1>4 DEF SenderTypes, IInv, Shut
<1>6. CASE closed
  <2>1. UNCHANGED <<open, queueVars, closed, progVars>>
    BY <1>1, <1>6 DEF queueVars
  <2> QED BY <1>5, <2>1, KeepQueue DEF IInv
<1>7. CASE ~closed
  <2>1. Streamed
    BY <1>7 DEF IInv
  <2>2. Fits(framed.bytes, framed.open)
    BY <1>2, <1>3, <2>1, FramedFits, OutsideFits
  <2>3. chan' = Append(chan, x) /\ open' = framed.open
    BY <1>1, <1>7
  <2> HIDE DEF framed
  <2>4. x \in Chunks /\ x.bytes = framed.bytes
    BY <1>3, <2>2 DEF Chunks, Chunk, Fits
  <2> HIDE DEF x
  <2>5. Streamed'
    BY <1>1, <1>2, <2>1, <2>2, <2>3, <2>4, Push
  <2>6. QueueTypes'
    BY <1>1, <1>2, <2>2, <2>3, <2>4, QueueType DEF Fits
  <2> QED BY <1>1, <1>5, <2>5, <2>6 DEF IInv
<1> QED BY <1>6, <1>7

\* Room that is found is there.
LEMMA RoomFound ==
  ASSUME free \in Room, NEW lane \in {"main", "control", "urgent"},
         lane = "urgent" \/ RoomIn(lane, 1) # None
  PROVE  /\ RoomIn(lane, 1) \in {"main", "control", "none"}
         /\ RoomIn(lane, 1) = "main" => Cost(1, Budget) <= free.main /\ free.slots > 0
         /\ RoomIn(lane, 1) = "control" => Cost(1, Control) <= free.control /\ free.slots > 0
<1> DEFINE slot == places = <<>> /\ free.slots > 0
<1>1. CASE funds = <<>> /\ Cost(1, Budget) <= free.main /\ slot
  <2>1. RoomIn(lane, 1) = "main"
    BY <1>1 DEF RoomIn
  <2> QED BY <1>1, <2>1
<1>2. CASE ~(funds = <<>> /\ Cost(1, Budget) <= free.main /\ slot)
  <2>1. lane # "main"
    BY <1>2 DEF RoomIn
  <2>2. CASE Cost(1, Control) <= free.control /\ slot
    <3>1. RoomIn(lane, 1) = "control"
      BY <1>2, <2>1, <2>2 DEF RoomIn
    <3> QED BY <2>2, <3>1
  <2>3. CASE ~(Cost(1, Control) <= free.control /\ slot)
    <3>1. RoomIn(lane, 1) = "none"
      BY <1>2, <2>1, <2>3 DEF RoomIn
    <3> QED BY <3>1
  <2> QED BY <2>2, <2>3
<1> QED BY <1>1, <1>2

\* Input that does not wait is queued in the room it found.
LEMMA QueueEffect ==
  ASSUME free \in Room, NEW lane \in {"main", "control", "urgent"},
         lane = "urgent" \/ RoomIn(lane, 1) # None, NEW bytes \in Seq(Bytes),
         Queue(RoomIn(lane, 1), bytes, 1)
  PROVE  /\ free' \in Room
         /\ \E x \in Chunks : x.bytes = bytes /\ chan' = Append(chan, x)
<1>1. PICK from \in {"main", "control", "none"} :
        /\ from = RoomIn(lane, 1)
        /\ from = "main" => Cost(1, Budget) <= free.main /\ free.slots > 0
        /\ from = "control" => Cost(1, Control) <= free.control /\ free.slots > 0
  BY RoomFound
<1> DEFINE held == [main |-> Cost(1, Budget), control |-> Cost(1, Control), none |-> 0][from]
           x == Chunk(bytes, from, held, from # "none")
<1>2. /\ chan' = Append(chan, x)
      /\ free' = IF from = "none" THEN free ELSE [free EXCEPT ![from] = @ - held, !.slots = @ - 1]
  BY <1>1 DEF Queue
<1>3. /\ Cost(1, Budget) \in Nat /\ Cost(1, Control) \in Nat
      /\ free.main \in Nat /\ free.control \in Nat /\ free.slots \in Nat
  BY CostType, BudgetAssumption DEF Room
<1>4. /\ from = "main" => held = Cost(1, Budget)
      /\ from = "control" => held = Cost(1, Control)
      /\ from = "none" => held = 0
  OBVIOUS
<1> HIDE DEF held
<1>5. held \in Nat
  BY <1>3, <1>4
<1>6. x \in Chunks /\ x.bytes = bytes
  <2>1. (from # "none") \in BOOLEAN
    OBVIOUS
  <2> QED BY <1>5, <2>1 DEF Chunks, Chunk
<1>7. free' \in Room
  <2>1. CASE from = "none"
    BY <1>2, <2>1
  <2>2. CASE from = "main"
    <3>1. free' = [free EXCEPT !.main = free.main - held, !.slots = free.slots - 1]
      BY <1>2, <2>2 DEF Room
    <3>2. free.main - held \in Nat /\ free.slots - 1 \in Nat
      BY <1>1, <1>3, <1>4, <2>2
    <3> QED BY <3>1, <3>2 DEF Room
  <2>3. CASE from = "control"
    <3>1. free' = [free EXCEPT !.control = free.control - held, !.slots = free.slots - 1]
      BY <1>2, <2>3 DEF Room
    <3>2. free.control - held \in Nat /\ free.slots - 1 \in Nat
      BY <1>1, <1>3, <1>4, <2>3
    <3> QED BY <3>1, <3>2 DEF Room
  <2> QED BY <2>1, <2>2, <2>3
<1> HIDE DEF x
<1> QED BY <1>2, <1>6, <1>7

\* A mouse report or a key that must not wait
LEMMA TrySendKeeps ==
  ASSUME IInv, NEW lane \in {"main", "control", "urgent"}, TrySend(lane)
  PROVE  IInv'
<1>1. /\ ~closed /\ RoomIn(lane, 1) # None
      /\ Queue(RoomIn(lane, 1), Outside(1).bytes, 1) /\ open' = Outside(1).open
      /\ UNCHANGED <<req, pasting, pastes, funds, places, pending, written, inPaste, replies, closed,
                     progVars>>
  BY DEF TrySend
<1>2. QueueTypes /\ Streamed /\ free \in Room /\ Lined(req, funds, places)
  BY <1>1 DEF IInv, SenderTypes
<1>3. Fits(Outside(1).bytes, Outside(1).open)
  BY <1>2, OutsideFits
<1>4. Outside(1).bytes \in Seq(Bytes) /\ Outside(1).open \in Paste \cup {None}
  BY <1>3 DEF Fits
<1>5. PICK x \in Chunks : x.bytes = Outside(1).bytes /\ chan' = Append(chan, x)
  BY <1>1, <1>2, <1>4, QueueEffect
<1>6. free' \in Room
  BY <1>1, <1>2, <1>4, QueueEffect
<1>7. Streamed'
  BY <1>1, <1>2, <1>3, <1>5, Push DEF progVars
<1>8. QueueTypes'
  BY <1>1, <1>2, <1>4, <1>5, QueueType
<1>9. SenderTypes' /\ Shut'
  BY <1>1, <1>2, <1>6 DEF SenderTypes, IInv, Shut
<1> QED BY <1>7, <1>8, <1>9 DEF IInv

\* A client leaves.
LEMMA DetachKeeps ==
  ASSUME IInv, NEW c \in Clients, Detach(c)
  PROVE  IInv'
<1> DEFINE mine == ~closed /\ OpenPaste # None /\ open.client = c
           x == [req[c] EXCEPT !.pc = "gone"]
<1>1. /\ req[c].pc = "idle" /\ req' = [req EXCEPT ![c].pc = "gone"]
      /\ IF mine THEN Queue(RoomIn("urgent", 1), <<End>>, 1) /\ open' = None
                 ELSE UNCHANGED <<chan, free, open>>
      /\ UNCHANGED <<pasting, pastes, funds, places, pending, written, inPaste, replies, closed,
                     progVars>>
  BY DEF Detach
<1>2. QueueTypes /\ free \in Room /\ Lined(req, funds, places) /\ c \in Senders
  BY DEF IInv, SenderTypes, Senders
<1>3. req' = [req EXCEPT ![c] = x] /\ x \in Request /\ x.pc = "gone"
  BY <1>1, <1>2 DEF Lined, Request
<1> HIDE DEF x
<1>4. Lined(req', funds', places')
  BY <1>1, <1>2, <1>3, Unlined
<1>5. CASE mine
  <2>1. Streamed
    BY <1>5 DEF IInv
  <2>2. Fits(<<End>>, None) /\ <<End>> \in Seq(Bytes)
    BY <2>1, EndFits DEF Fits
  <2>3. PICK y \in Chunks : y.bytes = <<End>> /\ chan' = Append(chan, y)
    BY <1>1, <1>2, <1>5, <2>2, QueueEffect
  <2>4. free' \in Room
    BY <1>1, <1>2, <1>5, <2>2, QueueEffect
  <2>5. Streamed'
    BY <1>1, <1>2, <1>5, <2>1, <2>2, <2>3, Push DEF progVars
  <2>6. QueueTypes'
    BY <1>1, <1>2, <1>5, <2>3, QueueType
  <2>7. SenderTypes' /\ Shut'
    BY <1>1, <1>4, <2>4 DEF SenderTypes, IInv, Shut
  <2> QED BY <2>5, <2>6, <2>7 DEF IInv
<1>6. CASE ~mine
  <2>1. UNCHANGED <<free, open, queueVars, closed, progVars>>
    BY <1>1, <1>6 DEF queueVars
  <2>2. SenderTypes' /\ Shut'
    BY <1>1, <1>2, <1>4, <2>1 DEF SenderTypes, IInv, Shut
  <2> QED BY <2>1, <2>2, KeepQueue DEF IInv
<1> QED BY <1>5, <1>6

\* The PTY task takes over a chunk.
LEMMA RecvKeeps ==
  ASSUME IInv, Recv
  PROVE  IInv'
<1> DEFINE f == [free EXCEPT !.slots = @ + IF chan[1].slot THEN 1 ELSE 0]
           x == [chan[1] EXCEPT !.slot = FALSE]
<1>1. /\ ~closed /\ chan # <<>> /\ pending' = Append(pending, x) /\ chan' = Tail(chan)
      /\ Settle(f, funds, places, req)
      /\ UNCHANGED <<pasting, pastes, open, written, inPaste, replies, closed, progVars>>
  BY DEF Recv
<1>2. /\ QueueTypes /\ Streamed /\ free \in Room /\ Lined(req, funds, places)
      /\ req \in [Senders -> Request]
  BY <1>1 DEF IInv, SenderTypes, Lined
<1>3. chan[1] \in Chunks /\ chan \in Seq(Chunks) /\ pending \in Seq(Chunks)
  BY <1>1, <1>2 DEF QueueTypes
<1>4. x \in Chunks
  BY <1>3 DEF Chunks
<1>5. f \in Room
  <2> DEFINE n == IF chan[1].slot THEN 1 ELSE 0
  <2>1. n \in Nat /\ f = [free EXCEPT !.slots = free.slots + n]
    BY <1>2 DEF Room
  <2> HIDE DEF n, f
  <2> QED BY <1>2, <2>1 DEF Room
<1> HIDE DEF f, x
<1>6. Lined(req', funds', places') /\ free' \in Room
  BY <1>1, <1>2, <1>5, SettleEffect
<1>7. QueueTypes'
  <2>1. pending' \in Seq(Chunks) /\ chan' \in Seq(Chunks)
    BY <1>1, <1>3, <1>4
  <2> QED BY <1>1, <1>2, <2>1 DEF QueueTypes, progVars
<1>8. SenderTypes' /\ Shut'
  BY <1>1, <1>6 DEF SenderTypes, IInv, Shut
<1> QED BY <1>2, <1>7, <1>8, RecvStream DEF IInv

\* It writes a reply.
LEMMA WriteReplyKeeps ==
  ASSUME IInv, WriteReply
  PROVE  IInv'
<1>1. /\ ~closed /\ replies > 0 /\ replies' = replies - 1
      /\ UNCHANGED <<req, pasting, pastes, funds, places, free, open, chan, pending, written, inPaste,
                     closed, mode, left, inside>>
  BY DEF WriteReply, Replying, roomVars, progVars
<1>2. QueueTypes'
  BY <1>1 DEF IInv, QueueTypes
<1>3. Streamed'
  BY <1>1, KeepStreamed DEF IInv
<1>4. SenderTypes' /\ Shut'
  BY <1>1 DEF SenderTypes, IInv, Shut
<1> QED BY <1>2, <1>3, <1>4 DEF IInv

\* The program reads a byte.
LEMMA WriteInputKeeps ==
  ASSUME IInv, WriteInput
  PROVE  IInv'
<1> DEFINE chunk == pending[1]
           through == written + 1 = Len(chunk.bytes)
           n == GivenBack(chunk, through)
           f == Returned(chunk.from, n)
<1>1. /\ ~closed /\ pending # <<>>
      /\ pending' = IF through THEN Tail(pending) ELSE [pending EXCEPT ![1].held = @ - n]
      /\ written' = IF through THEN 0 ELSE written + 1
      /\ inPaste' = IF through THEN InPasteAfter(chunk.bytes) ELSE inPaste
      /\ Settle(f, funds, places, req)
      /\ UNCHANGED <<pasting, pastes, open, chan, replies, closed, mode, left>>
  BY DEF WriteInput
<1>2. /\ QueueTypes /\ Streamed /\ free \in Room /\ Lined(req, funds, places)
      /\ req \in [Senders -> Request]
  BY <1>1 DEF IInv, SenderTypes, Lined
<1>3. /\ chunk \in Chunks /\ pending \in Seq(Chunks) /\ chunk.held \in Nat
      /\ chunk.from \in {"main", "control", "none"}
  <2>1. chunk \in Chunks /\ pending \in Seq(Chunks)
    BY <1>1, <1>2 DEF QueueTypes
  <2> QED BY <2>1 DEF Chunks
<1>4. n \in Nat /\ n <= chunk.held
  <2> HIDE DEF through, chunk
  <2>1. CASE through
    BY <1>3, <2>1 DEF GivenBack
  <2>2. CASE ~through
    BY <1>3, <2>2, ChunkCostAssumption DEF GivenBack, Smaller
  <2> QED BY <2>1, <2>2
<1> HIDE DEF n
<1>5. f \in Room
  <2>1. CASE chunk.from = "none"
    BY <1>2, <2>1 DEF Returned
  <2>2. CASE chunk.from = "main"
    <3>1. f = [free EXCEPT !.main = free.main + n]
      BY <1>2, <2>2 DEF Returned, Room
    <3> HIDE DEF f
    <3> QED BY <1>2, <1>4, <3>1 DEF Room
  <2>3. CASE chunk.from = "control"
    <3>1. f = [free EXCEPT !.control = free.control + n]
      BY <1>2, <2>3 DEF Returned, Room
    <3> HIDE DEF f
    <3> QED BY <1>2, <1>4, <3>1 DEF Room
  <2> QED BY <1>3, <2>1, <2>2, <2>3
<1> HIDE DEF f
<1>6. Lined(req', funds', places') /\ free' \in Room
  BY <1>1, <1>2, <1>5, SettleEffect
<1>7. pending' \in Seq(Chunks)
  <2>1. CASE through
    BY <1>1, <1>3, <2>1
  <2>2. CASE ~through
    <3>1. pending' = [pending EXCEPT ![1] = [chunk EXCEPT !.held = chunk.held - n]]
      BY <1>1, <1>3, <2>2
    <3>2. [chunk EXCEPT !.held = chunk.held - n] \in Chunks
      BY <1>3, <1>4 DEF Chunks
    <3>3. 1 \in 1 .. Len(pending)
      BY <1>1, <1>3
    <3> HIDE DEF chunk
    <3> QED BY <1>3, <3>1, <3>2, <3>3
  <2> QED BY <2>1, <2>2
<1>8. inPaste' \in BOOLEAN
  <2>1. inPaste \in BOOLEAN
    BY <1>2 DEF QueueTypes
  <2>2. InPasteAfter(chunk.bytes) \in BOOLEAN
    BY <2>1 DEF InPasteAfter
  <2> HIDE DEF through
  <2> QED BY <1>1, <2>1, <2>2
<1>9. written' \in Nat /\ inside' \in Paste \cup {None}
  <2>1. written \in Nat
    BY <1>2 DEF QueueTypes
  <2> HIDE DEF through
  <2> QED BY <1>1, <1>2, <2>1, InsideIsState
<1>10. QueueTypes'
  BY <1>1, <1>2, <1>7, <1>8, <1>9 DEF QueueTypes
<1>11. SenderTypes' /\ Shut'
  BY <1>1, <1>6 DEF SenderTypes, IInv, Shut
<1>12. Streamed'
  BY <1>2, MiddleStream, ThroughStream
<1> QED BY <1>10, <1>11, <1>12 DEF IInv

\* The program writes.
LEMMA OutputKeeps ==
  ASSUME IInv, NEW bracketed \in BOOLEAN, NEW query \in BOOLEAN, Output(bracketed, query)
  PROVE  IInv'
<1>1. /\ ~closed /\ mode' = bracketed /\ left' = (IF mode /\ ~bracketed THEN left + 1 ELSE left)
      /\ inside' = (IF bracketed THEN inside ELSE None) /\ inPaste' = (inPaste /\ bracketed)
      /\ replies' = (IF query /\ replies < MaxReplies THEN replies + 1 ELSE replies)
      /\ UNCHANGED <<req, pasting, pastes, funds, places, free, open, chan, pending, written, closed>>
  BY DEF Output, roomVars
<1>2. QueueTypes /\ Streamed
  BY <1>1 DEF IInv
<1>3. left' \in Nat /\ replies' \in Nat
  BY <1>1, <1>2 DEF QueueTypes
<1>4. mode' \in BOOLEAN /\ inPaste' \in BOOLEAN /\ inside' \in Paste \cup {None}
  BY <1>1, <1>2 DEF QueueTypes
<1>5. QueueTypes'
  BY <1>1, <1>2, <1>3, <1>4 DEF QueueTypes
<1>6. SenderTypes' /\ Shut'
  BY <1>1 DEF SenderTypes, IInv, Shut
<1> QED BY <1>2, <1>5, <1>6, OutputStream DEF IInv

\* The task ends.
LEMMA CloseKeeps ==
  ASSUME IInv, Close
  PROVE  IInv'
<1>1. /\ closed' = TRUE /\ chan' = <<>> /\ pending' = <<>> /\ written' = 0 /\ inPaste' = FALSE
      /\ replies' = 0 /\ funds' = <<>> /\ places' = <<>>
      /\ free' = [main |-> Budget, control |-> Control, slots |-> Slots]
      /\ UNCHANGED <<req, pasting, pastes, open, mode, left, inside>>
  BY DEF Close, progVars
<1>2. free' \in Room
  BY <1>1, BudgetAssumption DEF Room
<1>3. Lined(req', funds', places')
  BY <1>1 DEF IInv, SenderTypes, Lined
<1>4. SenderTypes' /\ Shut'
  BY <1>1, <1>2, <1>3 DEF SenderTypes, IInv, Shut
<1>5. QueueTypes'
  <2>1. QueueTypes
    BY DEF IInv
  <2>2. chan' \in Seq(Chunks) /\ pending' \in Seq(Chunks)
    BY <1>1
  <2>3. inPaste' \in BOOLEAN /\ closed' \in BOOLEAN
    BY <1>1
  <2>4. written' \in Nat /\ replies' \in Nat
    BY <1>1
  <2> QED BY <1>1, <2>1, <2>2, <2>3, <2>4 DEF QueueTypes
<1> QED BY <1>1, <1>4, <1>5 DEF IInv

\* Nobody asks and nothing waits.
LEMMA InitInv == Init => IInv
<1> SUFFICES ASSUME Init PROVE IInv
  OBVIOUS
<1> USE DEF Init
<1>1. req = [s \in Senders |-> Idle] /\ funds = <<>> /\ places = <<>>
  OBVIOUS
<1>2. req \in [Senders -> Request] /\ \A s \in Senders : req[s].pc = "idle"
  BY <1>1, IdleType
<1>3. Lined(req, funds, places)
  BY <1>1, <1>2 DEF Lined
<1>4. free \in Room
  BY BudgetAssumption DEF Room
<1>5. SenderTypes
  BY <1>3, <1>4 DEF SenderTypes
<1>6. QueueTypes /\ Shut
  <2>1. <<>> \in Seq(Chunks) /\ FALSE \in BOOLEAN
    OBVIOUS
  <2>2. mode \in BOOLEAN /\ inPaste \in BOOLEAN /\ closed \in BOOLEAN
    OBVIOUS
  <2>3. chan \in Seq(Chunks) /\ pending \in Seq(Chunks)
    BY <2>1
  <2>4. /\ written \in Nat /\ replies \in Nat /\ left \in Nat
        /\ open \in Paste \cup {None} /\ inside \in Paste \cup {None}
    OBVIOUS
  <2>5. Shut
    BY <1>1 DEF Shut
  <2> QED BY <2>2, <2>3, <2>4, <2>5, Zenon DEF QueueTypes
<1>7. Waiting = 0 /\ inside = None /\ open = None /\ pending = <<>> /\ written = 0
  BY DEF Waiting
<1>8. LastState = None
  BY <1>7 DEF LastState
<1>9. Streamed
  <2>1. Stream /\ Reading
    BY <1>7 DEF Stream, Reading
  <2>2. Opened
    BY <1>7, <1>8 DEF Opened, Fresh
  <2>3. Since
    BY <1>7 DEF Since, Known
  <2>4. KeepsReplies
    BY <1>7 DEF KeepsReplies
  <2> QED BY <2>1, <2>2, <2>3, <2>4 DEF Streamed
<1> QED BY <1>5, <1>6, <1>9 DEF IInv

\* Every step keeps the invariant.
LEMMA NextInv == IInv /\ [Next]_vars => IInv'
<1> SUFFICES ASSUME IInv, [Next]_vars PROVE IInv'
  OBVIOUS
<1>1. CASE UNCHANGED vars
  <2>1. UNCHANGED <<req, pasting, pastes, roomVars, open, queueVars, closed, progVars>>
    BY <1>1 DEF vars
  <2>2. UNCHANGED <<req, pasting, pastes, free, funds, places, closed>>
    BY <2>1 DEF roomVars
  <2>3. SenderTypes' /\ Shut'
    BY <2>2 DEF SenderTypes, IInv, Shut
  <2> QED BY <2>1, <2>3, KeepQueue DEF IInv
<1>2. CASE \E c \in Clients : ClientFrame(c) \/ Detach(c)
  BY <1>2, ClientFrameKeeps, DetachKeeps
<1>3. CASE \E s \in Callers : CallerSends(s)
  BY <1>3, CallerSendsKeeps
<1>4. CASE \E s \in Senders : Poll(s) \/ GiveUp(s) \/ SeesClosed(s) \/ Send(s)
  BY <1>4, PollKeeps, GiveUpKeeps, SeesClosedKeeps, SendKeeps
<1>5. CASE \E lane \in {"main", "control", "urgent"} : TrySend(lane)
  BY <1>5, TrySendKeeps
<1>6. CASE Recv
  BY <1>6, RecvKeeps
<1>7. CASE WriteReply
  BY <1>7, WriteReplyKeeps
<1>8. CASE WriteInput
  BY <1>8, WriteInputKeeps
<1>9. CASE \E bracketed, query \in BOOLEAN : Output(bracketed, query)
  BY <1>9, OutputKeeps
<1>10. CASE Close
  BY <1>10, CloseKeeps
<1> QED BY <1>1, <1>2, <1>3, <1>4, <1>5, <1>6, <1>7, <1>8, <1>9, <1>10 DEF Next

\* The invariant holds of every behaviour.
LEMMA Invariance == Spec => []IInv
BY InitInv, NextInv, PTL DEF Spec

(***************************************************************************)
(* The program reads its own.                                              *)
(***************************************************************************)

\* What a step may never let the program read follows from the invariant.
LEMMA ReadsItsOwn ==
  ASSUME IInv
  PROVE  /\ WriteReply => inside = None
         /\ WriteInput /\ inside # None => (Byte.kind = "end" \/ Byte = Text(inside, 1)[1])
         /\ WriteInput /\ Byte.kind = "text" /\ Byte.paste # None
              => (Byte.paste.since < left \/ inside = Byte.paste)
<1>1. WriteReply => inside = None
  BY DEF WriteReply, Replying, IInv, Streamed, KeepsReplies
<1>2. ASSUME WriteInput
      PROVE  Byte \in Bytes /\ Allowed(inside, Byte) /\ Known(Byte.paste) /\ left \in Nat
  <2>1. QueueTypes /\ Streamed /\ pending # <<>> /\ left \in Nat
    BY <1>2 DEF WriteInput, IInv, QueueTypes
  <2> QED BY <2>1, ByteRead
<1> HIDE DEF Byte
<1>3. ASSUME WriteInput, inside # None
      PROVE  Byte.kind = "end" \/ Byte = Text(inside, 1)[1]
  <2>1. Byte.kind = "end" \/ (Byte.kind = "text" /\ Byte.paste = inside)
    BY <1>2, <1>3 DEF Allowed
  <2>2. Text(inside, 1)[1] = [kind |-> "text", paste |-> inside]
    BY DEF Text
  <2>3. Byte.kind = "text" => Byte = [kind |-> "text", paste |-> Byte.paste]
    BY <1>2, <1>3 DEF Bytes
  <2> QED BY <2>1, <2>2, <2>3
<1>4. ASSUME WriteInput, Byte.kind = "text", Byte.paste # None
      PROVE  Byte.paste.since < left \/ inside = Byte.paste
  <2>1. Byte.paste \in Paste /\ Byte.paste.since \in Nat /\ Byte.paste.since <= left
    BY <1>2, <1>4 DEF Bytes, Known, Paste
  <2>2. CASE Byte.paste.since = left
    BY <1>2, <1>4, <2>2 DEF Allowed, Fresh
  <2> QED BY <1>2, <1>4, <2>1, <2>2
<1> QED BY <1>1, <1>3, <1>4

\* While a program stays in paste mode it reads between a paste's markers that
\* paste's own bytes and nothing else, and no byte of a bracketed paste without
\* its marker: frame_input, send_outside_paste, close_open_pastes and the
\* PtyInputQueue keep it so for any number of senders, budgets and pastes.
THEOREM PasteKeptHolds == Spec => PasteKept
<1>1. IInv /\ [Next]_vars
        => [/\ WriteReply => inside = None
            /\ WriteInput /\ inside # None => (Byte.kind = "end" \/ Byte = Text(inside, 1)[1])
            /\ WriteInput /\ Byte.kind = "text" /\ Byte.paste # None
                 => (Byte.paste.since < left \/ inside = Byte.paste)]_vars
  BY ReadsItsOwn
<1> QED BY <1>1, Invariance, PTL DEF Spec, PasteKept

(***************************************************************************)
(* The ledger: who holds the bytes and the slots that are not free         *)
(***************************************************************************)

Holding == {"funded", "place", "ready"}
Ready == {"ready"}

\* Those whose requests r are at one of pcs, each once
Roll(hs, r, pcs) ==
  /\ hs \in Seq(Senders)
  /\ \A i, j \in 1 .. Len(hs) : hs[i] = hs[j] => i = j
  /\ \A s \in Senders : r[s].pc \in pcs <=> \E i \in 1 .. Len(hs) : hs[i] = s

Prices(r, hs) == [i \in 1 .. Len(hs) |-> Cost(r[hs[i]].len, Budget)]

Queued == pending \o chan
HeldOf(q) == [i \in 1 .. Len(q) |-> IF q[i].from = "main" THEN q[i].held ELSE 0]
SlotOf(q) == [i \in 1 .. Len(q) |-> IF q[i].slot THEN 1 ELSE 0]

\* Every byte of the budget is free, reserved or held by a chunk.
Bytewise(f, r, n) ==
  \E hs : Roll(hs, r, Holding) /\ f.main + Total(Prices(r, hs)) + n = Budget

\* Every slot is free, reserved or held by a chunk queued.
Slotwise(f, r, n) ==
  \E rs : Roll(rs, r, Ready) /\ f.slots + Len(rs) + n = Slots

\* Whoever is first in line could not be served.
Pressed ==
  /\ funds # <<>> => Price(funds[1]) > free.main
  /\ places # <<>> => free.slots = 0

\* A chunk within the budget holds what is still to write of it.
TextsOf(c) == Cardinality({i \in DOMAIN c.bytes : c.bytes[i].kind = "text"})
Counting(c) == c.from = "main" /\ TextsOf(c) + ChunkCost <= Budget
Covers(c, done) == Counting(c) => Len(c.bytes) - done <= c.held

Covered ==
  \A i \in 1 .. Len(Queued) : Covers(Queued[i], IF i = 1 THEN written ELSE 0)

Ledger ==
  /\ Bytewise(free, req, Total(HeldOf(Queued)))
  /\ Slotwise(free, req, Total(SlotOf(chan)))
  /\ Pressed /\ Covered

\* Nothing waits for a task that is gone.
LInv == IF closed THEN chan = <<>> /\ pending = <<>> ELSE Ledger

(***************************************************************************)
(* Sums                                                                    *)
(***************************************************************************)

\* Addition associates.
LEMMA Assoc ==
  ASSUME NEW x \in Nat, NEW y \in Nat, NEW z \in Nat
  PROVE  (x + y) + z = x + (y + z)
OBVIOUS

\* Addends change places.
LEMMA Swap ==
  ASSUME NEW x \in Nat, NEW y \in Nat, NEW z \in Nat
  PROVE  (x + y) + z = (x + z) + y
OBVIOUS

\* Total is the last of the running sums.
LEMMA TotalSums ==
  ASSUME NEW w \in Seq(Nat)
  PROVE  \E g \in [0 .. Len(w) -> Nat] :
           /\ g[0] = 0 /\ \A k \in 1 .. Len(w) : g[k] = g[k - 1] + w[k]
           /\ Total(w) = g[Len(w)]
<1> DEFINE L == Len(w)
           Sum(g, n) == g = [k \in 0 .. n |-> IF k = 0 THEN 0 ELSE g[k - 1] + w[k]]
           Summed(n) == n <= L => \E g \in [0 .. n -> Nat] : Sum(g, n)
           S == {n \in Nat : Summed(n)}
<1>1. L \in Nat /\ \A k \in 1 .. L : w[k] \in Nat
  OBVIOUS
<1> HIDE DEF L
<1>2. 0 \in S
  <2> DEFINE g == [k \in 0 .. 0 |-> 0]
  <2>1. g \in [0 .. 0 -> Nat] /\ Sum(g, 0)
    OBVIOUS
  <2> QED BY <2>1
<1>3. ASSUME NEW n \in Nat, n \in S, n + 1 <= L
      PROVE  n + 1 \in S
  <2>1. PICK g \in [0 .. n -> Nat] : Sum(g, n)
    <3> HIDE DEF Sum
    <3>1. n <= L
      BY <1>1, <1>3
    <3> QED BY <1>3, <3>1
  <2> DEFINE h == [k \in 0 .. n + 1 |-> IF k = n + 1 THEN g[n] + w[n + 1] ELSE g[k]]
  <2>2. w[n + 1] \in Nat
    BY <1>1, <1>3
  <2>3. h \in [0 .. n + 1 -> Nat]
    BY <2>2
  <2>4. ASSUME NEW k \in 0 .. n + 1
        PROVE  h[k] = IF k = 0 THEN 0 ELSE h[k - 1] + w[k]
    <3>1. CASE k = n + 1
      BY <3>1
    <3>2. CASE k \in 0 .. n
      BY <2>1, <3>2
    <3> QED BY <3>1, <3>2
  <2>5. Sum(h, n + 1)
    BY <2>3, <2>4
  <2>6. Summed(n + 1)
    <3> HIDE DEF Sum, h
    <3> QED BY <2>3, <2>5
  <2> HIDE DEF Summed
  <2> QED BY <2>6
<1>4. ASSUME NEW n \in Nat, n \in S PROVE n + 1 \in S
  <2>1. CASE n + 1 <= L
    BY <1>3, <1>4, <2>1
  <2>2. CASE ~(n + 1 <= L)
    <3> HIDE DEF Sum
    <3> QED BY <2>2
  <2> QED BY <2>1, <2>2
<1>5. Nat \subseteq S
  <2> HIDE DEF S
  <2> QED BY <1>2, <1>4, Induct
<1>6. PICK g \in [0 .. L -> Nat] : Sum(g, L)
  <2> HIDE DEF Sum
  <2>1. L \in S
    <3> HIDE DEF S
    <3> QED BY <1>1, <1>5
  <2>2. L <= L
    BY <1>1
  <2> QED BY <2>1, <2>2
<1> DEFINE N == CHOOSE x : Sum(x, L)
<1>7. Total(w) = N[L]
  BY DEF Total, L
<1>8. Sum(N, L)
  <2> HIDE DEF Sum
  <2> QED BY <1>6
<1> HIDE DEF N
<1>9. /\ N[0] = 0 /\ \A k \in 1 .. L : N[k] = N[k - 1] + w[k]
      /\ N = [k \in 0 .. L |-> N[k]]
  <2>2. N = [k \in 0 .. L |-> IF k = 0 THEN 0 ELSE N[k - 1] + w[k]]
    BY <1>8
  <2>3. \A k \in 0 .. L : N[k] = IF k = 0 THEN 0 ELSE N[k - 1] + w[k]
    BY <2>2
  <2>4. N[0] = 0
    BY <1>1, <2>3
  <2>5. ASSUME NEW k \in 1 .. L PROVE N[k] = N[k - 1] + w[k]
    <3>1. k \in 0 .. L /\ k # 0
      BY <1>1
    <3> QED BY <2>3, <3>1
  <2>6. N = [k \in 0 .. L |-> N[k]]
    BY <2>2
  <2> QED BY <2>4, <2>5, <2>6
<1> DEFINE W == {n \in Nat : n <= L => N[n] \in Nat}
<1>10. 0 \in W
  BY <1>1, <1>9
<1>11. ASSUME NEW n \in Nat, n \in W PROVE n + 1 \in W
  <2> SUFFICES ASSUME n + 1 <= L PROVE N[n + 1] \in Nat
    OBVIOUS
  <2>1. N[n] \in Nat /\ w[n + 1] \in Nat
    BY <1>1, <1>11
  <2>2. N[n + 1] = N[n] + w[n + 1]
    <3>1. n + 1 \in 1 .. L /\ (n + 1) - 1 = n
      BY <1>1
    <3> QED BY <1>9, <3>1
  <2> QED BY <2>1, <2>2
<1>12. Nat \subseteq W
  <2> HIDE DEF W
  <2> QED BY <1>10, <1>11, Induct
<1>13. \A k \in 0 .. L : N[k] \in Nat
  BY <1>1, <1>12
<1>14. N \in [0 .. L -> Nat]
  BY <1>9, <1>13
<1> QED BY <1>7, <1>9, <1>14 DEF L

\* A number without the n-th of a sequence is the sum of the others.
LEMMA TotalWithout ==
  ASSUME NEW w \in Seq(Nat), NEW v \in Seq(Nat), NEW n \in 1 .. Len(w), Len(v) = Len(w) - 1,
         \A i \in 1 .. Len(v) : v[i] = IF i < n THEN w[i] ELSE w[i + 1]
  PROVE  Total(w) = Total(v) + w[n]
<1>1. PICK g \in [0 .. Len(w) -> Nat] :
        /\ g[0] = 0 /\ \A k \in 1 .. Len(w) : g[k] = g[k - 1] + w[k]
        /\ Total(w) = g[Len(w)]
  BY TotalSums
<1>2. PICK h \in [0 .. Len(v) -> Nat] :
        /\ h[0] = 0 /\ \A k \in 1 .. Len(v) : h[k] = h[k - 1] + v[k]
        /\ Total(v) = h[Len(v)]
  BY TotalSums
<1> DEFINE L == Len(v)
           S == {k \in Nat : k <= L => IF k < n THEN h[k] = g[k] ELSE h[k] + w[n] = g[k + 1]}
<1>3. L \in Nat /\ Len(w) = L + 1 /\ n \in 1 .. L + 1 /\ \A k \in 1 .. L + 1 : w[k] \in Nat
  OBVIOUS
<1>4. \A k \in 1 .. L : v[k] = IF k < n THEN w[k] ELSE w[k + 1]
  OBVIOUS
<1> HIDE DEF L
<1>5. /\ \A k \in 0 .. L + 1 : g[k] \in Nat
      /\ \A k \in 0 .. L : h[k] \in Nat
      /\ g[0] = 0 /\ h[0] = 0
      /\ \A k \in 1 .. L + 1 : g[k] = g[k - 1] + w[k]
      /\ \A k \in 1 .. L : h[k] = h[k - 1] + v[k]
  BY <1>1, <1>2, <1>3 DEF L
<1>6. 0 \in S
  <2>1. 0 < n
    BY <1>3
  <2> QED BY <1>5, <2>1
<1>7. ASSUME NEW k \in Nat, k \in S PROVE k + 1 \in S
  <2> SUFFICES ASSUME k + 1 <= L
               PROVE  IF k + 1 < n THEN h[k + 1] = g[k + 1] ELSE h[k + 1] + w[n] = g[k + 2]
    OBVIOUS
  <2>1. k \in 0 .. L /\ k + 1 \in 1 .. L /\ k + 1 \in 1 .. L + 1 /\ k + 2 \in 1 .. L + 1
    BY <1>3
  <2>2. /\ h[k + 1] = h[k] + v[k + 1] /\ g[k + 1] = g[k] + w[k + 1] /\ g[k + 2] = g[k + 1] + w[k + 2]
        /\ h[k] \in Nat /\ g[k] \in Nat /\ g[k + 1] \in Nat /\ w[k + 1] \in Nat /\ w[k + 2] \in Nat
        /\ w[n] \in Nat
    <3>1. (k + 1) - 1 = k /\ (k + 2) - 1 = k + 1
      OBVIOUS
    <3>2. h[k + 1] = h[(k + 1) - 1] + v[k + 1]
      BY <1>5, <2>1
    <3>3. g[k + 1] = g[(k + 1) - 1] + w[k + 1] /\ g[k + 2] = g[(k + 2) - 1] + w[k + 2]
      BY <1>5, <2>1
    <3>4. h[k + 1] = h[k] + v[k + 1] /\ g[k + 1] = g[k] + w[k + 1] /\ g[k + 2] = g[k + 1] + w[k + 2]
      BY <3>1, <3>2, <3>3
    <3>5. h[k] \in Nat /\ g[k] \in Nat /\ g[k + 1] \in Nat
      <4>1. k \in 0 .. L + 1 /\ k + 1 \in 0 .. L + 1
        BY <1>3, <2>1
      <4> QED BY <1>5, <2>1, <4>1
    <3>6. w[k + 1] \in Nat /\ w[k + 2] \in Nat /\ w[n] \in Nat
      BY <1>3, <2>1
    <3> QED BY <3>4, <3>5, <3>6
  <2>3. v[k + 1] = IF k + 1 < n THEN w[k + 1] ELSE w[k + 2]
    BY <1>4, <2>1
  <2>4. IF k < n THEN h[k] = g[k] ELSE h[k] + w[n] = g[k + 1]
    BY <1>7, <2>1
  <2>5. CASE k + 1 < n
    BY <1>3, <2>2, <2>3, <2>4, <2>5
  <2>6. CASE k + 1 = n
    <3>1. v[k + 1] = w[k + 2] /\ h[k] = g[k] /\ w[n] = w[k + 1]
      <4>1. ~(k + 1 < n) /\ k < n
        BY <1>3, <2>6
      <4> QED BY <2>3, <2>4, <2>6, <4>1
    <3>2. h[k + 1] + w[n] = g[k + 2]
      <4>1. (g[k] + w[k + 2]) + w[k + 1] = (g[k] + w[k + 1]) + w[k + 2]
        <5>1. g[k] \in Nat /\ w[k + 2] \in Nat /\ w[k + 1] \in Nat
          BY <2>2
        <5> QED BY <5>1, Swap, Zenon
      <4> QED BY <2>2, <3>1, <4>1, Zenon
    <3> QED BY <1>3, <2>6, <3>2
  <2>7. CASE k + 1 > n
    <3>1. v[k + 1] = w[k + 2] /\ h[k] + w[n] = g[k + 1]
      BY <1>3, <2>3, <2>4, <2>7
    <3>2. h[k + 1] + w[n] = g[k + 2]
      <4>1. (h[k] + w[k + 2]) + w[n] = (h[k] + w[n]) + w[k + 2]
        <5>1. h[k] \in Nat /\ w[k + 2] \in Nat /\ w[n] \in Nat
          BY <2>2
        <5> QED BY <5>1, Swap, Zenon
      <4> QED BY <2>2, <3>1, <4>1, Zenon
    <3> QED BY <1>3, <2>7, <3>2
  <2> QED BY <1>3, <2>5, <2>6, <2>7
<1>8. L \in S
  <2>1. Nat \subseteq S
    <3> HIDE DEF S
    <3> QED BY <1>6, <1>7, Induct
  <2> QED BY <1>3, <2>1
<1>9. IF L < n THEN h[L] = g[L] ELSE h[L] + w[n] = g[L + 1]
  BY <1>3, <1>8
<1>10. Total(w) = g[L + 1] /\ Total(v) = h[L]
  BY <1>1, <1>2, <1>3 DEF L
<1>11. CASE L < n
  <2>1. n = L + 1
    BY <1>3, <1>11
  <2>2. g[L + 1] = g[L] + w[L + 1]
    <3>1. L + 1 \in 1 .. L + 1 /\ (L + 1) - 1 = L
      BY <1>3
    <3> QED BY <1>5, <3>1
  <2> QED BY <1>9, <1>10, <1>11, <2>1, <2>2
<1> QED BY <1>9, <1>10, <1>11

\* The sum of a sequence of no more is no more.
LEMMA TotalLess ==
  ASSUME NEW w \in Seq(Nat), NEW v \in Seq(Nat), Len(v) = Len(w),
         \A i \in 1 .. Len(v) : v[i] <= w[i]
  PROVE  Total(v) <= Total(w)
<1>1. PICK g \in [0 .. Len(w) -> Nat] :
        /\ g[0] = 0 /\ \A k \in 1 .. Len(w) : g[k] = g[k - 1] + w[k]
        /\ Total(w) = g[Len(w)]
  BY TotalSums
<1>2. PICK h \in [0 .. Len(v) -> Nat] :
        /\ h[0] = 0 /\ \A k \in 1 .. Len(v) : h[k] = h[k - 1] + v[k]
        /\ Total(v) = h[Len(v)]
  BY TotalSums
<1> DEFINE L == Len(v)
           S == {k \in Nat : k <= L => h[k] <= g[k]}
<1>3. L \in Nat /\ \A k \in 1 .. L : w[k] \in Nat /\ v[k] \in Nat /\ v[k] <= w[k]
  OBVIOUS
<1> HIDE DEF L
<1>4. /\ \A k \in 0 .. L : g[k] \in Nat /\ h[k] \in Nat
      /\ g[0] = 0 /\ h[0] = 0
      /\ \A k \in 1 .. L : g[k] = g[k - 1] + w[k] /\ h[k] = h[k - 1] + v[k]
  BY <1>1, <1>2 DEF L
<1>5. 0 \in S
  BY <1>4
<1>6. ASSUME NEW k \in Nat, k \in S PROVE k + 1 \in S
  <2> SUFFICES ASSUME k + 1 <= L PROVE h[k + 1] <= g[k + 1]
    OBVIOUS
  <2>1. k \in 0 .. L /\ k + 1 \in 1 .. L /\ (k + 1) - 1 = k
    BY <1>3
  <2>2. h[k + 1] = h[k] + v[k + 1] /\ g[k + 1] = g[k] + w[k + 1] /\ h[k] <= g[k]
    BY <1>4, <1>6, <2>1
  <2>3. h[k] \in Nat /\ g[k] \in Nat
    BY <1>4, <2>1
  <2>4. v[k + 1] \in Nat /\ w[k + 1] \in Nat /\ v[k + 1] <= w[k + 1]
    BY <1>3, <2>1
  <2> QED BY <2>2, <2>3, <2>4
<1>7. L \in S
  <2>1. Nat \subseteq S
    <3> HIDE DEF S
    <3> QED BY <1>5, <1>6, Induct
  <2> QED BY <1>3, <2>1
<1> QED BY <1>1, <1>2, <1>3, <1>7 DEF L

\* A sum is a number; nothing sums to nothing.
LEMMA TotalType ==
  ASSUME NEW w \in Seq(Nat)
  PROVE  Total(w) \in Nat /\ (Len(w) = 0 => Total(w) = 0)
BY TotalSums

\* Nothing but zeros sums to zero.
LEMMA TotalZero ==
  ASSUME NEW w \in Seq(Nat), \A i \in 1 .. Len(w) : w[i] = 0
  PROVE  Total(w) = 0
<1>1. PICK g \in [0 .. Len(w) -> Nat] :
        /\ g[0] = 0 /\ \A k \in 1 .. Len(w) : g[k] = g[k - 1] + w[k]
        /\ Total(w) = g[Len(w)]
  BY TotalSums
<1> DEFINE S == {k \in Nat : k <= Len(w) => g[k] = 0}
<1>2. 0 \in S
  BY <1>1
<1>3. ASSUME NEW k \in Nat, k \in S PROVE k + 1 \in S
  <2> SUFFICES ASSUME k + 1 <= Len(w) PROVE g[k + 1] = 0
    OBVIOUS
  <2>1. k + 1 \in 1 .. Len(w) /\ (k + 1) - 1 = k /\ g[k] = 0
    BY <1>3
  <2>2. g[k + 1] = g[(k + 1) - 1] + w[k + 1] /\ w[k + 1] = 0
    BY <1>1, <2>1
  <2> QED BY <2>1, <2>2
<1>4. Nat \subseteq S
  <2> HIDE DEF S
  <2> QED BY <1>2, <1>3, Induct
<1>5. Len(w) \in Nat /\ Len(w) \in S
  BY <1>4
<1> QED BY <1>1, <1>5

\* One more
LEMMA TotalMore ==
  ASSUME NEW w \in Seq(Nat), NEW v \in Seq(Nat), Len(v) = Len(w) + 1,
         \A i \in 1 .. Len(w) : v[i] = w[i]
  PROVE  Total(v) = Total(w) + v[Len(v)]
<1>1. Len(v) \in 1 .. Len(v) /\ Len(w) = Len(v) - 1
  OBVIOUS
<1>2. \A i \in 1 .. Len(w) : w[i] = IF i < Len(v) THEN v[i] ELSE v[i + 1]
  OBVIOUS
<1> QED BY <1>1, <1>2, TotalWithout

\* One changed
LEMMA TotalChanged ==
  ASSUME NEW w \in Seq(Nat), NEW v \in Seq(Nat), Len(v) = Len(w), NEW n \in 1 .. Len(w),
         \A i \in 1 .. Len(w) : i # n => v[i] = w[i]
  PROVE  Total(v) = (Total(w) - w[n]) + v[n]
<1> DEFINE u == [i \in 1 .. Len(w) - 1 |-> IF i < n THEN w[i] ELSE w[i + 1]]
<1>1. u \in Seq(Nat) /\ Len(u) = Len(w) - 1
  <2>1. \A i \in 1 .. Len(w) - 1 : u[i] \in Nat
    OBVIOUS
  <2>2. Len(w) - 1 \in Nat
    OBVIOUS
  <2> QED BY <2>1, <2>2, IsASeq, LenProperties
<1>2. \A i \in 1 .. Len(u) : u[i] = IF i < n THEN w[i] ELSE w[i + 1]
  BY <1>1
<1>3. \A i \in 1 .. Len(u) : u[i] = IF i < n THEN v[i] ELSE v[i + 1]
  <2> SUFFICES ASSUME NEW i \in 1 .. Len(u) PROVE u[i] = IF i < n THEN v[i] ELSE v[i + 1]
    OBVIOUS
  <2>1. i \in 1 .. Len(w) /\ i + 1 \in 1 .. Len(w) /\ u[i] = IF i < n THEN w[i] ELSE w[i + 1]
    BY <1>1, <1>2
  <2> HIDE DEF u
  <2> QED BY <2>1
<1> HIDE DEF u
<1>4. Total(w) = Total(u) + w[n]
  BY <1>1, <1>2, TotalWithout
<1>5. Total(v) = Total(u) + v[n]
  BY <1>1, <1>3, TotalWithout
<1>6. Total(u) \in Nat
  BY <1>1, TotalType
<1>7. n \in 1 .. Len(w) /\ n \in 1 .. Len(v)
  OBVIOUS
<1>8. w[n] \in Nat /\ v[n] \in Nat
  BY <1>7, ElementOfSeq
<1> QED BY <1>4, <1>5, <1>6, <1>8

\* N are the running sums of k members of u after the m-th.
Runs(N, k, u, m) == N[0] = 0 /\ \A j \in 1 .. k : N[j] = N[j - 1] + u[m + j]

\* Some more, whose running sums are known
LEMMA TotalOn ==
  ASSUME NEW w \in Seq(Nat), NEW u \in Seq(Nat), NEW n \in Nat, NEW k \in 0 .. n,
         Len(u) = Len(w) + k, \A i \in 1 .. Len(w) : u[i] = w[i],
         NEW N \in [0 .. n -> Nat], Runs(N, k, u, Len(w))
  PROVE  Total(u) = Total(w) + N[k]
<1>1. PICK g \in [0 .. Len(w) -> Nat] :
        /\ g[0] = 0 /\ \A i \in 1 .. Len(w) : g[i] = g[i - 1] + w[i]
        /\ Total(w) = g[Len(w)]
  BY TotalSums
<1>2. PICK h \in [0 .. Len(u) -> Nat] :
        /\ h[0] = 0 /\ \A i \in 1 .. Len(u) : h[i] = h[i - 1] + u[i]
        /\ Total(u) = h[Len(u)]
  BY TotalSums
<1> DEFINE L == Len(w)
           S == {i \in Nat : i <= L => h[i] = g[i]}
           T == {j \in Nat : j <= k => h[L + j] = h[L] + N[j]}
<1>3. L \in Nat /\ Len(u) = L + k /\ \A i \in 1 .. L : u[i] = w[i]
  OBVIOUS
<1> HIDE DEF L
<1>4. \A j \in 1 .. k : u[L + j] \in Nat /\ N[j] = N[j - 1] + u[L + j]
  <2> TAKE j \in 1 .. k
  <2>0. k \in Nat /\ j \in Nat /\ 1 <= j /\ j <= k
    OBVIOUS
  <2>1. L + j \in 1 .. L + k
    BY <1>3, <2>0
  <2>2. u[L + j] \in Nat
    <3>1. 1 .. Len(u) = 1 .. L + k
      BY <1>3
    <3>2. L + j \in 1 .. Len(u)
      BY <2>1, <3>1, Zenon
    <3> QED BY <3>2, ElementOfSeq, Zenon
  <2> QED BY <2>2 DEF Runs, L
<1>5. /\ g[0] = 0 /\ h[0] = 0
      /\ \A i \in 1 .. L : g[i] = g[i - 1] + w[i]
      /\ \A i \in 1 .. L + k : h[i] = h[i - 1] + u[i]
      /\ \A i \in 0 .. L + k : h[i] \in Nat
  BY <1>1, <1>2, <1>3 DEF L
<1>6. 0 \in S
  BY <1>5
<1>7. ASSUME NEW i \in Nat, i \in S PROVE i + 1 \in S
  <2> SUFFICES ASSUME i + 1 <= L PROVE h[i + 1] = g[i + 1]
    OBVIOUS
  <2>1. i + 1 \in 1 .. L /\ i + 1 \in 1 .. L + k /\ (i + 1) - 1 = i /\ i <= L
    BY <1>3
  <2>2. h[i + 1] = h[i] + u[i + 1] /\ g[i + 1] = g[i] + w[i + 1]
    BY <1>5, <2>1
  <2> QED BY <1>3, <1>7, <2>1, <2>2
<1>8. h[L] = g[L]
  <2>1. Nat \subseteq S
    <3> HIDE DEF S
    <3> QED BY <1>6, <1>7, Induct
  <2> QED BY <1>3, <2>1
<1>9. 0 \in T
  <2>1. h[L] \in Nat /\ L + 0 = L /\ N[0] = 0
    BY <1>3, <1>5 DEF Runs
  <2> QED BY <2>1
<1>10. ASSUME NEW j \in Nat, j \in T PROVE j + 1 \in T
  <2> SUFFICES ASSUME j + 1 <= k PROVE h[L + (j + 1)] = h[L] + N[j + 1]
    OBVIOUS
  <2>1. j + 1 \in 1 .. k /\ (j + 1) - 1 = j /\ j <= k /\ L + (j + 1) \in 1 .. L + k
        /\ (L + (j + 1)) - 1 = L + j
    BY <1>3
  <2>2. h[L + (j + 1)] = h[L + j] + u[L + (j + 1)]
    BY <1>5, <2>1
  <2>3. N[j + 1] = N[j] + u[L + (j + 1)] /\ u[L + (j + 1)] \in Nat
    BY <1>4, <2>1
  <2>4. N[j] \in Nat /\ h[L + j] = h[L] + N[j] /\ h[L] \in Nat
    BY <1>3, <1>5, <1>10, <2>1
  <2> DEFINE x == u[L + (j + 1)]
             y == h[L + (j + 1)]
  <2>5. y = h[L + j] + x /\ N[j + 1] = N[j] + x /\ x \in Nat
    BY <2>2, <2>3
  <2> HIDE DEF x, y, S, T
  <2>6. y = h[L] + N[j + 1]
    <3>1. (h[L] + N[j]) + x = h[L] + (N[j] + x)
      BY <2>4, <2>5, Assoc
    <3> QED BY <2>4, <2>5, <3>1, Zenon
  <2> QED BY <2>6 DEF y
<1>11. h[L + k] = h[L] + N[k]
  <2>1. Nat \subseteq T
    <3> HIDE DEF T
    <3> QED BY <1>9, <1>10, Induct
  <2> QED BY <1>3, <2>1
<1> QED BY <1>1, <1>2, <1>3, <1>8, <1>11 DEF L

(***************************************************************************)
(* Rolls                                                                   *)
(***************************************************************************)

\* What those on a roll pay
LEMMA PricesType ==
  ASSUME NEW r \in [Senders -> Request], NEW hs \in Seq(Senders)
  PROVE  /\ Prices(r, hs) \in Seq(Nat) /\ Len(Prices(r, hs)) = Len(hs)
         /\ \A i \in 1 .. Len(hs) : Prices(r, hs)[i] = Cost(r[hs[i]].len, Budget)
<1> DEFINE p == Prices(r, hs)
<1>1. \A i \in 1 .. Len(hs) : p[i] = Cost(r[hs[i]].len, Budget) /\ hs[i] \in Senders
  BY DEF Prices
<1>2. \A i \in 1 .. Len(hs) : p[i] \in Nat
  <2> TAKE i \in 1 .. Len(hs)
  <2>1. r[hs[i]].len \in Nat
    BY <1>1 DEF Request
  <2> QED BY <1>1, <2>1, CostType, BudgetAssumption
<1>3. p = [i \in 1 .. Len(hs) |-> p[i]] /\ Len(hs) \in Nat
  BY DEF Prices
<1> HIDE DEF p
<1>4. p \in Seq(Nat) /\ Len(p) = Len(hs)
  <2>1. [i \in 1 .. Len(hs) |-> p[i]] \in Seq(Nat)
    BY <1>2, <1>3, IsASeq
  <2>2. DOMAIN p = 1 .. Len(hs)
    BY <1>3
  <2> QED BY <1>3, <2>1, <2>2, LenProperties
<1> QED BY <1>1, <1>4 DEF p

\* Nobody comes or goes.
LEMMA RollStays ==
  ASSUME NEW r \in [Senders -> Request], NEW q \in [Senders -> Request], NEW hs, NEW pcs,
         Roll(hs, r, pcs), \A s \in Senders : q[s].pc \in pcs <=> r[s].pc \in pcs,
         \A s \in Senders : r[s].pc \in pcs => q[s].len = r[s].len
  PROVE  Roll(hs, q, pcs) /\ Total(Prices(q, hs)) = Total(Prices(r, hs))
<1>1. Roll(hs, q, pcs)
  BY DEF Roll
<1>2. \A i \in 1 .. Len(hs) : Cost(q[hs[i]].len, Budget) = Cost(r[hs[i]].len, Budget)
  <2> TAKE i \in 1 .. Len(hs)
  <2>1. hs[i] \in Senders /\ r[hs[i]].pc \in pcs
    BY DEF Roll
  <2> QED BY <2>1
<1>3. Prices(q, hs) = Prices(r, hs)
  BY <1>2 DEF Prices
<1> QED BY <1>1, <1>3

\* From requests r to q the first k of a come, and nobody else comes or goes.
Comes(r, q, pcs, a, k) ==
  /\ \A i, j \in 1 .. Len(a) : a[i] = a[j] => i = j
  /\ \A i \in 1 .. k : r[a[i]].pc \notin pcs
  /\ \A s \in Senders : q[s].pc \in pcs <=> (r[s].pc \in pcs \/ \E i \in 1 .. k : a[i] = s)
  /\ \A s \in Senders : r[s].pc \in pcs => q[s].len = r[s].len

\* What they pay runs up to N[k].
Pay(N, q, a, k) ==
  N[0] = 0 /\ \A i \in 1 .. k : N[i] = N[i - 1] + Cost(q[a[i]].len, Budget)

\* Some come, in order.
LEMMA RollJoins ==
  ASSUME NEW r \in [Senders -> Request], NEW q \in [Senders -> Request], NEW hs, NEW pcs,
         Roll(hs, r, pcs), NEW a \in Seq(Senders), NEW k \in 0 .. Len(a),
         Comes(r, q, pcs, a, k), NEW N \in [0 .. Len(a) -> Nat], Pay(N, q, a, k)
  PROVE  \E gs : /\ Roll(gs, q, pcs) /\ Len(gs) = Len(hs) + k
                 /\ Total(Prices(q, gs)) = Total(Prices(r, hs)) + N[k]
<1> DEFINE L == Len(hs)
           gs == [i \in 1 .. L + k |-> IF i <= L THEN hs[i] ELSE a[i - L]]
<1> USE DEF Comes, Pay
<1>1. L \in Nat /\ k \in Nat /\ L + k \in Nat /\ hs \in Seq(Senders)
  BY DEF Roll
<1>2. \A i \in 1 .. L : hs[i] \in Senders
  BY DEF Roll
<1>3. \A i \in 1 .. k : a[i] \in Senders
  OBVIOUS
<1> HIDE DEF L
<1>4. gs \in Seq(Senders) /\ Len(gs) = L + k
  <2>1. \A i \in 1 .. L + k : gs[i] \in Senders
    BY <1>1, <1>2, <1>3
  <2>2. gs \in [1 .. L + k -> Senders]
    BY <2>1
  <2> HIDE DEF gs
  <2> QED BY <1>1, <2>2, SeqDef
<1>5. /\ \A i \in 1 .. L : gs[i] = hs[i]
      /\ \A i \in 1 .. k : gs[L + i] = a[i]
  BY <1>1
<1>6. \A i \in 1 .. L + k : i \in 1 .. L \/ \E j \in 1 .. k : i = L + j
  <2> TAKE i \in 1 .. L + k
  <2>1. CASE i > L
    <3>1. i - L \in 1 .. k /\ i = L + (i - L)
      BY <1>1, <2>1
    <3> QED BY <3>1
  <2> QED BY <1>1, <2>1
<1> HIDE DEF gs
<1>7. \A i \in 1 .. L : r[hs[i]].pc \in pcs
  BY <1>2 DEF Roll, L
<1>8. \A i, j \in 1 .. L + k : gs[i] = gs[j] => i = j
  <2> SUFFICES ASSUME NEW i \in 1 .. L + k, NEW j \in 1 .. L + k, gs[i] = gs[j] PROVE i = j
    OBVIOUS
  <2>1. CASE i \in 1 .. L /\ j \in 1 .. L
    BY <1>5, <2>1 DEF Roll, L
  <2>2. CASE i \in 1 .. L /\ j \notin 1 .. L
    <3>1. PICK n \in 1 .. k : j = L + n
      BY <1>6, <2>2
    <3>2. gs[i] = hs[i] /\ gs[j] = a[n]
      BY <1>5, <2>2, <3>1
    <3>3. r[hs[i]].pc \in pcs /\ r[a[n]].pc \notin pcs
      BY <1>7, <2>2
    <3> QED BY <3>2, <3>3
  <2>3. CASE i \notin 1 .. L /\ j \in 1 .. L
    <3>1. PICK n \in 1 .. k : i = L + n
      BY <1>6, <2>3
    <3>2. gs[j] = hs[j] /\ gs[i] = a[n]
      BY <1>5, <2>3, <3>1
    <3>3. r[hs[j]].pc \in pcs /\ r[a[n]].pc \notin pcs
      BY <1>7, <2>3
    <3> QED BY <3>2, <3>3
  <2>4. CASE i \notin 1 .. L /\ j \notin 1 .. L
    <3>1. PICK m \in 1 .. k : i = L + m
      BY <1>6, <2>4
    <3>2. PICK n \in 1 .. k : j = L + n
      BY <1>6, <2>4
    <3>3. a[m] = a[n] /\ m \in 1 .. Len(a) /\ n \in 1 .. Len(a)
      BY <1>5, <3>1, <3>2
    <3> QED BY <3>1, <3>2, <3>3
  <2> QED BY <2>1, <2>2, <2>3, <2>4
<1>9. ASSUME NEW s \in Senders
      PROVE  q[s].pc \in pcs <=> \E i \in 1 .. L + k : gs[i] = s
  <2>1. ASSUME NEW i \in 1 .. L + k, gs[i] = s PROVE q[s].pc \in pcs
    <3>1. CASE i \in 1 .. L
      BY <1>5, <1>7, <2>1, <3>1
    <3>2. CASE i \notin 1 .. L
      BY <1>5, <1>6, <2>1, <3>2
    <3> QED BY <3>1, <3>2
  <2>2. ASSUME r[s].pc \in pcs PROVE \E i \in 1 .. L + k : gs[i] = s
    <3>1. PICK i \in 1 .. L : hs[i] = s
      BY <2>2 DEF Roll, L
    <3>2. i \in 1 .. L + k
      BY <1>1
    <3> QED BY <1>5, <3>1, <3>2
  <2>3. ASSUME NEW i \in 1 .. k, a[i] = s PROVE \E j \in 1 .. L + k : gs[j] = s
    <3>1. L + i \in 1 .. L + k
      BY <1>1
    <3> QED BY <1>5, <2>3, <3>1
  <2> QED BY <2>1, <2>2, <2>3
<1>10. Roll(gs, q, pcs)
  BY <1>4, <1>8, <1>9 DEF Roll
<1>11. Total(Prices(q, gs)) = Total(Prices(q, hs)) + N[k]
  <2> DEFINE u == Prices(q, gs)
             w == Prices(q, hs)
  <2>1. w \in Seq(Nat) /\ Len(w) = L /\ \A i \in 1 .. L : w[i] = Cost(q[hs[i]].len, Budget)
    BY <1>1, PricesType DEF L
  <2>2. /\ u \in Seq(Nat) /\ Len(u) = Len(gs)
        /\ \A i \in 1 .. Len(gs) : u[i] = Cost(q[gs[i]].len, Budget)
    BY <1>4, PricesType
  <2> HIDE DEF u, w
  <2>3. Len(u) = Len(w) + k /\ \A i \in 1 .. L + k : u[i] = Cost(q[gs[i]].len, Budget)
    BY <1>4, <2>1, <2>2
  <2>4. \A i \in 1 .. L : u[i] = w[i]
    <3> SUFFICES ASSUME NEW i \in 1 .. L PROVE u[i] = w[i]
      OBVIOUS
    <3>1. i \in 1 .. L + k /\ gs[i] = hs[i]
      BY <1>1, <1>5
    <3>2. w[i] = Cost(q[hs[i]].len, Budget)
      BY <2>1
    <3>3. u[i] = Cost(q[gs[i]].len, Budget)
      BY <2>3, <3>1
    <3> QED BY <3>1, <3>2, <3>3
  <2>5. \A i \in 1 .. k : N[i] = N[i - 1] + u[L + i]
    <3> SUFFICES ASSUME NEW i \in 1 .. k PROVE N[i] = N[i - 1] + u[L + i]
      OBVIOUS
    <3>1. L + i \in 1 .. L + k /\ gs[L + i] = a[i]
      BY <1>1, <1>5
    <3>2. u[L + i] = Cost(q[a[i]].len, Budget)
      BY <2>3, <3>1
    <3> QED BY <3>2
  <2>6. \A i \in 1 .. Len(w) : u[i] = w[i]
    BY <2>1, <2>4
  <2>7. Runs(N, k, u, Len(w))
    BY <2>1, <2>5 DEF Runs
  <2>8. Total(u) = Total(w) + N[k]
    <3>1. w \in Seq(Nat) /\ u \in Seq(Nat) /\ Len(u) = Len(w) + k /\ Len(a) \in Nat
      BY <1>1, <2>1, <2>2, <2>3
    <3> HIDE DEF Comes, Pay
    <3>2. PICK x \in Seq(Nat), y \in Seq(Nat) : x = u /\ y = w
      BY <3>1
    <3>3. Len(x) = Len(y) + k /\ (\A i \in 1 .. Len(y) : x[i] = y[i]) /\ Runs(N, k, x, Len(y))
      BY <2>6, <2>7, <3>1, <3>2
    <3>4. Total(x) = Total(y) + N[k]
      BY <3>1, <3>3, TotalOn
    <3> QED BY <3>2, <3>4
  <2> QED BY <2>8 DEF u, w
<1>12. Prices(q, hs) = Prices(r, hs)
  BY <1>2, <1>7 DEF Prices, L
<1> QED BY <1>4, <1>10, <1>11, <1>12 DEF L

\* One comes.
LEMMA RollJoin ==
  ASSUME NEW r \in [Senders -> Request], NEW q \in [Senders -> Request], NEW hs, NEW pcs,
         Roll(hs, r, pcs), NEW s \in Senders, r[s].pc \notin pcs, q[s].pc \in pcs,
         \A z \in Senders : z # s => q[z] = r[z]
  PROVE  \E gs : /\ Roll(gs, q, pcs) /\ Len(gs) = Len(hs) + 1
                 /\ Total(Prices(q, gs)) = Total(Prices(r, hs)) + Cost(q[s].len, Budget)
<1> DEFINE a == <<s>>
           N == [i \in 0 .. 1 |-> IF i = 0 THEN 0 ELSE Cost(q[s].len, Budget)]
<1>1. a \in Seq(Senders) /\ Len(a) = 1 /\ a[1] = s /\ 1 \in 0 .. Len(a)
  OBVIOUS
<1>2. N[0] = 0 /\ N[1] = Cost(q[s].len, Budget)
  OBVIOUS
<1>3. q[s].len \in Nat
  BY DEF Request
<1>4. Cost(q[s].len, Budget) \in Nat
  BY <1>3, CostType, BudgetAssumption
<1> HIDE DEF a
<1>5. N \in [0 .. Len(a) -> Nat]
  BY <1>1, <1>4
<1> HIDE DEF N
<1>6. Pay(N, q, a, 1)
  <2>1. \A i \in 1 .. 1 : i = 1 /\ i - 1 = 0
    OBVIOUS
  <2>2. 0 + Cost(q[s].len, Budget) = Cost(q[s].len, Budget)
    BY <1>4
  <2> QED BY <1>1, <1>2, <2>1, <2>2 DEF Pay
<1>7. Comes(r, q, pcs, a, 1)
  <2>1. \A z \in Senders : q[z].pc \in pcs <=> (r[z].pc \in pcs \/ \E i \in 1 .. 1 : a[i] = z)
    BY <1>1
  <2> QED BY <1>1, <2>1 DEF Comes
<1>8. \E gs : /\ Roll(gs, q, pcs) /\ Len(gs) = Len(hs) + 1
              /\ Total(Prices(q, gs)) = Total(Prices(r, hs)) + N[1]
  BY <1>1, <1>5, <1>6, <1>7, RollJoins
<1> QED BY <1>2, <1>8

\* One leaves.
LEMMA RollLeaves ==
  ASSUME NEW r \in [Senders -> Request], NEW q \in [Senders -> Request], NEW hs, NEW pcs,
         Roll(hs, r, pcs), NEW s \in Senders, r[s].pc \in pcs, q[s].pc \notin pcs,
         \A z \in Senders : z # s => q[z] = r[z]
  PROVE  \E gs : /\ Roll(gs, q, pcs) /\ Len(hs) = Len(gs) + 1
                 /\ Total(Prices(r, hs)) = Total(Prices(q, gs)) + Cost(r[s].len, Budget)
<1>1. hs \in Seq(Senders)
  BY DEF Roll
<1>2. PICK n \in 1 .. Len(hs) : hs[n] = s
  BY DEF Roll
<1> DEFINE L == Len(hs) - 1
           gs == [i \in 1 .. L |-> IF i < n THEN hs[i] ELSE hs[i + 1]]
<1>3. L \in Nat /\ Len(hs) = L + 1 /\ n \in 1 .. L + 1 /\ \A i \in 1 .. L + 1 : hs[i] \in Senders
  BY <1>1
<1>4. \A i, j \in 1 .. L + 1 : hs[i] = hs[j] => i = j
  BY <1>3 DEF Roll
<1> HIDE DEF L
<1>5. gs \in Seq(Senders) /\ Len(gs) = L
  <2>1. \A i \in 1 .. L : gs[i] \in Senders
    BY <1>3
  <2>2. gs \in [1 .. L -> Senders]
    BY <2>1
  <2> HIDE DEF gs
  <2> QED BY <1>3, <2>2, SeqDef
<1>6. \A i \in 1 .. L : gs[i] = IF i < n THEN hs[i] ELSE hs[i + 1]
  OBVIOUS
<1> HIDE DEF gs
<1>7. \A i, j \in 1 .. L : gs[i] = gs[j] => i = j
  BY <1>3, <1>4, <1>6
<1>8. \A i \in 1 .. L : gs[i] # s
  BY <1>2, <1>3, <1>4, <1>6
<1>9. ASSUME NEW z \in Senders PROVE q[z].pc \in pcs <=> \E i \in 1 .. L : gs[i] = z
  <2>1. CASE z = s
    BY <1>8, <2>1
  <2>2. CASE z # s
    <3>1. q[z] = r[z]
      BY <2>2
    <3>2. ASSUME NEW i \in 1 .. L, gs[i] = z PROVE r[z].pc \in pcs
      <4>1. \E j \in 1 .. Len(hs) : hs[j] = z
        BY <1>3, <1>6, <3>2
      <4> QED BY <4>1 DEF Roll
    <3>3. ASSUME r[z].pc \in pcs PROVE \E i \in 1 .. L : gs[i] = z
      <4>1. PICK j \in 1 .. L + 1 : hs[j] = z
        BY <1>3, <3>3 DEF Roll
      <4>2. CASE j < n
        <5>1. j \in 1 .. L
          BY <1>3, <4>2
        <5> QED BY <1>6, <4>1, <4>2, <5>1
      <4>3. CASE j > n
        <5>1. j - 1 \in 1 .. L /\ ~(j - 1 < n) /\ (j - 1) + 1 = j
          BY <1>3, <4>3
        <5> QED BY <1>6, <4>1, <5>1
      <4>4. j # n
        BY <1>2, <2>2, <4>1
      <4> QED BY <1>3, <4>2, <4>3, <4>4
    <3> QED BY <3>1, <3>2, <3>3
  <2> QED BY <2>1, <2>2
<1>10. Roll(gs, q, pcs)
  BY <1>5, <1>7, <1>9 DEF Roll
<1> DEFINE w == Prices(r, hs)
           v == Prices(q, gs)
<1>11. w \in Seq(Nat) /\ Len(w) = L + 1 /\ \A i \in 1 .. L + 1 : w[i] = Cost(r[hs[i]].len, Budget)
  BY <1>1, <1>3, PricesType
<1>12. v \in Seq(Nat) /\ Len(v) = L /\ \A i \in 1 .. L : v[i] = Cost(q[gs[i]].len, Budget)
  BY <1>5, PricesType
<1> HIDE DEF w, v
<1>13. \A i \in 1 .. L : v[i] = IF i < n THEN w[i] ELSE w[i + 1]
  <2> TAKE i \in 1 .. L
  <2>1. gs[i] \in Senders /\ gs[i] # s
    BY <1>5, <1>8
  <2>2. v[i] = Cost(r[gs[i]].len, Budget)
    BY <1>12, <2>1
  <2>3. i \in 1 .. L + 1 /\ i + 1 \in 1 .. L + 1
    BY <1>3
  <2> QED BY <1>6, <1>11, <2>2, <2>3
<1>14. Total(w) = Total(v) + w[n]
  <2>1. n \in 1 .. Len(w) /\ Len(v) = Len(w) - 1
    BY <1>3, <1>11, <1>12
  <2>2. \A i \in 1 .. Len(v) : v[i] = IF i < n THEN w[i] ELSE w[i + 1]
    BY <1>12, <1>13
  <2>3. w \in Seq(Nat) /\ v \in Seq(Nat)
    BY <1>11, <1>12
  <2> QED BY <2>1, <2>2, <2>3, TotalWithout
<1>15. w[n] = Cost(r[s].len, Budget)
  BY <1>2, <1>3, <1>11
<1> QED BY <1>3, <1>5, <1>10, <1>14, <1>15 DEF w, v

(***************************************************************************)
(* Permits that come back                                                  *)
(***************************************************************************)

\* Who is served: the first k in line for bytes and the first m for a slot.
Serves(f, a, b, r, k, m) ==
  /\ k \in 0 .. Len(a) /\ m \in 0 .. Len(b)
  /\ free'.main = f.main - Need(a)[k] /\ free'.slots = f.slots - m
  /\ k < Len(a) => Need(a)[k + 1] > f.main
  /\ m < Len(b) => m = f.slots
  /\ funds' = SubSeq(a, k + 1, Len(a)) /\ places' = SubSeq(b, m + 1, Len(b))

Passed(a, b, r, k, m) ==
  \A s \in Senders :
    /\ req'[s].len = r[s].len
    /\ (\E i \in 1 .. k : a[i] = s) => req'[s].pc = "funded"
    /\ (~ \E i \in 1 .. k : a[i] = s) /\ (\E i \in 1 .. m : b[i] = s) => req'[s].pc = "ready"
    /\ (~ \E i \in 1 .. k : a[i] = s) /\ (~ \E i \in 1 .. m : b[i] = s) => req'[s].pc = r[s].pc

\* Permits that come back serve so many of each line.
LEMMA SettleServes ==
  ASSUME req \in [Senders -> Request], NEW f \in Room, NEW a, NEW b, NEW r, Lined(r, a, b),
         Settle(f, a, b, r)
  PROVE  \E k, m : Serves(f, a, b, r, k, m) /\ Passed(a, b, r, k, m)
<1> DEFINE k == IF a = <<>> THEN 0 ELSE Served(a, f.main)
           m == Smaller(Len(b), f.slots)
<1>1. /\ a \in Seq(Senders) /\ b \in Seq(Senders) /\ r \in [Senders -> Request]
      /\ f.main \in Nat /\ f.control \in Nat /\ f.slots \in Nat
  BY DEF Lined, Room
<1>2. /\ k \in 0 .. Len(a) /\ Need(a)[k] \in Nat /\ Need(a)[0] = 0
      /\ (k < Len(a) => Need(a)[k + 1] > f.main)
  <2>1. Need(a) \in [0 .. Len(a) -> Nat] /\ Need(a)[0] = 0
    BY <1>1, NeedSums
  <2>2. CASE a = <<>>
    <3>1. k = 0 /\ Len(a) = 0
      BY <2>2
    <3> QED BY <1>1, <2>1, <3>1
  <2>3. CASE a # <<>>
    <3>1. k = Served(a, f.main)
      BY <2>3
    <3> HIDE DEF k
    <3>2. /\ Served(a, f.main) \in 0 .. Len(a)
          /\ (Served(a, f.main) < Len(a) => Need(a)[Served(a, f.main) + 1] > f.main)
      BY <1>1, ServedSome
    <3> QED BY <2>1, <3>1, <3>2
  <2> QED BY <2>2, <2>3
<1>3. m \in 0 .. Len(b) /\ (m < Len(b) => m = f.slots)
  BY <1>1 DEF Smaller
<1>4. free' = IF k + m = 0 THEN f ELSE [f EXCEPT !.main = @ - Need(a)[k], !.slots = @ - m]
  BY DEF Settle
<1>5. funds' = SubSeq(a, k + 1, Len(a)) /\ places' = SubSeq(b, m + 1, Len(b))
  BY DEF Settle
<1>6. req' = IF k + m = 0 THEN r
             ELSE [s \in Senders |->
                    IF \E i \in 1 .. k : a[i] = s THEN [r[s] EXCEPT !.pc = "funded"]
                    ELSE IF \E i \in 1 .. m : b[i] = s THEN [r[s] EXCEPT !.pc = "ready"]
                    ELSE r[s]]
  BY DEF Settle
<1> HIDE DEF k, m
<1>7. free'.main = f.main - Need(a)[k] /\ free'.slots = f.slots - m
  <2>1. CASE k + m = 0
    <3>1. k = 0 /\ m = 0
      BY <1>2, <1>3, <2>1
    <3> QED BY <1>1, <1>2, <1>4, <2>1, <3>1
  <2>2. CASE k + m # 0
    <3>1. free' = [f EXCEPT !.main = f.main - Need(a)[k], !.slots = f.slots - m]
      BY <1>4, <2>2 DEF Room
    <3> QED BY <3>1 DEF Room
  <2> QED BY <2>1, <2>2
<1>8. Serves(f, a, b, r, k, m)
  BY <1>2, <1>3, <1>5, <1>7 DEF Serves
<1>9. Passed(a, b, r, k, m)
  <2> SUFFICES ASSUME NEW s \in Senders
               PROVE  /\ req'[s].len = r[s].len
                      /\ (\E i \in 1 .. k : a[i] = s) => req'[s].pc = "funded"
                      /\ (~ \E i \in 1 .. k : a[i] = s) /\ (\E i \in 1 .. m : b[i] = s)
                           => req'[s].pc = "ready"
                      /\ (~ \E i \in 1 .. k : a[i] = s) /\ (~ \E i \in 1 .. m : b[i] = s)
                           => req'[s].pc = r[s].pc
    BY DEF Passed
  <2>1. r[s] \in Request
    BY <1>1
  <2>2. CASE k + m = 0
    <3>1. k = 0 /\ m = 0
      BY <1>2, <1>3, <2>2
    <3> QED BY <1>6, <2>2, <3>1
  <2>3. CASE k + m # 0 /\ \E i \in 1 .. k : a[i] = s
    <3>1. req'[s] = [r[s] EXCEPT !.pc = "funded"]
      BY <1>6, <2>3
    <3> QED BY <2>1, <2>3, <3>1 DEF Request
  <2>4. CASE k + m # 0 /\ (~ \E i \in 1 .. k : a[i] = s) /\ \E i \in 1 .. m : b[i] = s
    <3>1. req'[s] = [r[s] EXCEPT !.pc = "ready"]
      BY <1>6, <2>4
    <3> QED BY <2>1, <2>4, <3>1 DEF Request
  <2>5. CASE k + m # 0 /\ (~ \E i \in 1 .. k : a[i] = s) /\ ~ \E i \in 1 .. m : b[i] = s
    <3>1. req'[s] = r[s]
      BY <1>6, <2>5
    <3> QED BY <2>5, <3>1
  <2> QED BY <2>2, <2>3, <2>4, <2>5
<1> QED BY <1>8, <1>9

\* The lines as they are asked to be served
Asked(f, a, b, r) ==
  /\ f \in Room /\ Lined(r, a, b) /\ Settle(f, a, b, r)
  /\ \A i \in 1 .. Len(a) : r[a[i]].len = req[a[i]].len

\* What is served comes out of what is free.
LEMMA SettleBytes ==
  ASSUME req \in [Senders -> Request], NEW f, NEW a, NEW b, NEW r, Asked(f, a, b, r), NEW n \in Nat,
         Bytewise(f, r, n)
  PROVE  Bytewise(free', req', n)
<1>1. /\ f \in Room /\ Lined(r, a, b) /\ Settle(f, a, b, r) /\ r \in [Senders -> Request]
      /\ a \in Seq(Senders) /\ b \in Seq(Senders) /\ f.main \in Nat
  BY DEF Asked, Lined, Room
<1>2. PICK k, m : Serves(f, a, b, r, k, m) /\ Passed(a, b, r, k, m)
  BY <1>1, SettleServes
<1>3. PICK hs : Roll(hs, r, Holding) /\ f.main + Total(Prices(r, hs)) + n = Budget
  BY DEF Bytewise
<1>4. req' \in [Senders -> Request] /\ free' \in Room
  BY <1>1, SettleEffect DEF Lined
<1>5. /\ k \in 0 .. Len(a) /\ m \in 0 .. Len(b) /\ free'.main = f.main - Need(a)[k]
      /\ \A s \in Senders : req'[s].len = r[s].len
  BY <1>2 DEF Serves, Passed
<1>6. Need(a) \in [0 .. Len(a) -> Nat] /\ Need(a)[0] = 0
      /\ \A i \in 1 .. Len(a) : Need(a)[i] = Need(a)[i - 1] + Price(a[i])
  BY <1>1, NeedSums
<1>7. Pay(Need(a), req', a, k)
  <2> SUFFICES ASSUME NEW i \in 1 .. k
               PROVE  Need(a)[i] = Need(a)[i - 1] + Cost(req'[a[i]].len, Budget)
    BY <1>6 DEF Pay
  <2>1. i \in 1 .. Len(a) /\ a[i] \in Senders
    BY <1>1, <1>5
  <2>2. req'[a[i]].len = req[a[i]].len
    BY <1>5, <2>1 DEF Asked
  <2> QED BY <1>6, <2>1, <2>2 DEF Price
<1>8. Comes(r, req', Holding, a, k)
  <2>1. \A i \in 1 .. Len(a) : r[a[i]].pc = "funds" /\ a[i] \in Senders
    BY <1>1 DEF Lined
  <2>2. \A i \in 1 .. Len(b) : r[b[i]].pc = "place" /\ b[i] \in Senders
    BY <1>1 DEF Lined
  <2>3. ASSUME NEW s \in Senders
        PROVE  req'[s].pc \in Holding <=> (r[s].pc \in Holding \/ \E i \in 1 .. k : a[i] = s)
    <3>1. CASE \E i \in 1 .. k : a[i] = s
      <4>1. req'[s].pc = "funded"
        BY <1>2, <3>1 DEF Passed
      <4> QED BY <3>1, <4>1 DEF Holding
    <3>2. CASE (~ \E i \in 1 .. k : a[i] = s) /\ \E i \in 1 .. m : b[i] = s
      <4>1. req'[s].pc = "ready"
        BY <1>2, <3>2 DEF Passed
      <4>2. r[s].pc = "place"
        BY <1>1, <1>5, <2>2, <3>2
      <4> QED BY <4>1, <4>2 DEF Holding
    <3>3. CASE (~ \E i \in 1 .. k : a[i] = s) /\ ~ \E i \in 1 .. m : b[i] = s
      <4>1. req'[s].pc = r[s].pc
        BY <1>2, <3>3 DEF Passed
      <4> QED BY <3>3, <4>1
    <3> QED BY <3>1, <3>2, <3>3
  <2>4. \A i \in 1 .. k : r[a[i]].pc \notin Holding
    <3> TAKE i \in 1 .. k
    <3>1. i \in 1 .. Len(a)
      BY <1>1, <1>5
    <3> QED BY <2>1, <3>1 DEF Holding
  <2>5. \A i, j \in 1 .. Len(a) : a[i] = a[j] => i = j
    BY <1>1 DEF Lined
  <2> QED BY <1>5, <2>3, <2>4, <2>5 DEF Comes
<1>9. PICK gs : /\ Roll(gs, req', Holding) /\ Len(gs) = Len(hs) + k
                /\ Total(Prices(req', gs)) = Total(Prices(r, hs)) + Need(a)[k]
  <2>1. PICK q \in [Senders -> Request], N \in [0 .. Len(a) -> Nat] : q = req' /\ N = Need(a)
    BY <1>4, <1>6
  <2>2. Pay(N, q, a, k) /\ Comes(r, q, Holding, a, k)
    BY <1>7, <1>8, <2>1
  <2>3. \E gs : /\ Roll(gs, q, Holding) /\ Len(gs) = Len(hs) + k
                /\ Total(Prices(q, gs)) = Total(Prices(r, hs)) + N[k]
    BY <1>1, <1>3, <1>5, <2>2, RollJoins
  <2> QED BY <2>1, <2>3
<1>10. Total(Prices(r, hs)) \in Nat /\ Need(a)[k] \in Nat
  BY <1>1, <1>3, <1>5, <1>6, PricesType, TotalType DEF Roll
<1>11. free'.main + Total(Prices(req', gs)) + n = Budget
  <2> DEFINE t == Total(Prices(r, hs))
             d == Need(a)[k]
  <2>1. t \in Nat /\ d \in Nat /\ f.main + t + n = Budget
    BY <1>3, <1>10
  <2>2. free'.main = f.main - d /\ Total(Prices(req', gs)) = t + d
    BY <1>5, <1>9
  <2> HIDE DEF t, d
  <2> QED BY <1>1, <2>1, <2>2
<1> QED BY <1>9, <1>11 DEF Bytewise

\* And so it is with slots.
LEMMA SettleSlots ==
  ASSUME req \in [Senders -> Request], NEW f, NEW a, NEW b, NEW r, Asked(f, a, b, r), NEW n \in Nat,
         Slotwise(f, r, n)
  PROVE  Slotwise(free', req', n)
<1>1. /\ f \in Room /\ Lined(r, a, b) /\ Settle(f, a, b, r) /\ r \in [Senders -> Request]
      /\ a \in Seq(Senders) /\ b \in Seq(Senders) /\ f.slots \in Nat
  BY DEF Asked, Lined, Room
<1>2. PICK k, m : Serves(f, a, b, r, k, m) /\ Passed(a, b, r, k, m)
  BY <1>1, SettleServes
<1>3. PICK rs : Roll(rs, r, Ready) /\ f.slots + Len(rs) + n = Slots
  BY DEF Slotwise
<1>4. req' \in [Senders -> Request] /\ free' \in Room
  BY <1>1, SettleEffect DEF Lined
<1>5. /\ k \in 0 .. Len(a) /\ m \in 0 .. Len(b) /\ free'.slots = f.slots - m
      /\ \A s \in Senders : req'[s].len = r[s].len
  BY <1>2 DEF Serves, Passed
<1> DEFINE cost(i) == Cost(req'[b[i]].len, Budget)
<1>6. \E N \in [0 .. Len(b) -> Nat] : Pay(N, req', b, m)
  <2> DEFINE w == Prices(req', b)
  <2>1. w \in Seq(Nat) /\ Len(w) = Len(b) /\ \A i \in 1 .. Len(b) : w[i] = cost(i)
    BY <1>1, <1>4, PricesType
  <2> HIDE DEF w
  <2>2. PICK g \in [0 .. Len(w) -> Nat] : g[0] = 0 /\ \A i \in 1 .. Len(w) : g[i] = g[i - 1] + w[i]
    BY <2>1, TotalSums
  <2>3. \A i \in 1 .. m : i \in 1 .. Len(b)
    BY <1>1, <1>5
  <2>4. Pay(g, req', b, m)
    BY <2>1, <2>2, <2>3 DEF Pay
  <2> QED BY <2>1, <2>2, <2>4
<1>7. PICK N \in [0 .. Len(b) -> Nat] : Pay(N, req', b, m)
  BY <1>6
<1>8. Comes(r, req', Ready, b, m)
  <2>1. \A i \in 1 .. Len(a) : r[a[i]].pc = "funds" /\ a[i] \in Senders
    BY <1>1 DEF Lined
  <2>2. \A i \in 1 .. Len(b) : r[b[i]].pc = "place" /\ b[i] \in Senders
    BY <1>1 DEF Lined
  <2>3. ASSUME NEW s \in Senders
        PROVE  req'[s].pc \in Ready <=> (r[s].pc \in Ready \/ \E i \in 1 .. m : b[i] = s)
    <3>1. CASE \E i \in 1 .. k : a[i] = s
      <4>1. req'[s].pc = "funded"
        BY <1>2, <3>1 DEF Passed
      <4>2. r[s].pc = "funds"
        BY <1>1, <1>5, <2>1, <3>1
      <4>3. ASSUME NEW i \in 1 .. m PROVE b[i] # s
        <5>1. i \in 1 .. Len(b)
          BY <1>1, <1>5
        <5> QED BY <2>2, <4>2, <5>1
      <4> QED BY <4>1, <4>2, <4>3 DEF Ready
    <3>2. CASE (~ \E i \in 1 .. k : a[i] = s) /\ \E i \in 1 .. m : b[i] = s
      <4>1. req'[s].pc = "ready"
        BY <1>2, <3>2 DEF Passed
      <4> QED BY <3>2, <4>1 DEF Ready
    <3>3. CASE (~ \E i \in 1 .. k : a[i] = s) /\ ~ \E i \in 1 .. m : b[i] = s
      <4>1. req'[s].pc = r[s].pc
        BY <1>2, <3>3 DEF Passed
      <4> QED BY <3>3, <4>1
    <3> QED BY <3>1, <3>2, <3>3
  <2>4. \A i \in 1 .. m : r[b[i]].pc \notin Ready
    <3> TAKE i \in 1 .. m
    <3>1. i \in 1 .. Len(b)
      BY <1>1, <1>5
    <3> QED BY <2>2, <3>1 DEF Ready
  <2>5. \A i, j \in 1 .. Len(b) : b[i] = b[j] => i = j
    BY <1>1 DEF Lined
  <2> QED BY <1>5, <2>3, <2>4, <2>5 DEF Comes
<1>9. PICK gs : Roll(gs, req', Ready) /\ Len(gs) = Len(rs) + m
  <2>1. PICK q \in [Senders -> Request] : q = req'
    BY <1>4
  <2>2. Pay(N, q, b, m) /\ Comes(r, q, Ready, b, m)
    BY <1>7, <1>8, <2>1
  <2>3. \E gs : /\ Roll(gs, q, Ready) /\ Len(gs) = Len(rs) + m
                /\ Total(Prices(q, gs)) = Total(Prices(r, rs)) + N[m]
    <3>1. /\ r \in [Senders -> Request] /\ b \in Seq(Senders) /\ m \in 0 .. Len(b)
          /\ Roll(rs, r, Ready)
      BY <1>1, <1>3, <1>5
    <3> QED BY <2>2, <3>1, RollJoins
  <2> QED BY <2>1, <2>3
<1>10. Len(rs) \in Nat /\ m \in Nat
  BY <1>3, <1>5 DEF Roll
<1>11. free'.slots + Len(gs) + n = Slots
  BY <1>1, <1>3, <1>5, <1>9, <1>10
<1> QED BY <1>9, <1>11 DEF Slotwise

\* Whoever stays in line could not be served.
LEMMA SettlePressed ==
  ASSUME req \in [Senders -> Request], NEW f, NEW a, NEW b, NEW r, Asked(f, a, b, r)
  PROVE  Pressed'
<1>1. /\ f \in Room /\ Lined(r, a, b) /\ Settle(f, a, b, r)
      /\ a \in Seq(Senders) /\ b \in Seq(Senders) /\ f.main \in Nat /\ f.slots \in Nat
  BY DEF Asked, Lined, Room
<1>2. PICK k, m : Serves(f, a, b, r, k, m) /\ Passed(a, b, r, k, m)
  BY <1>1, SettleServes
<1>3. /\ k \in 0 .. Len(a) /\ m \in 0 .. Len(b)
      /\ free'.main = f.main - Need(a)[k] /\ free'.slots = f.slots - m
      /\ (k < Len(a) => Need(a)[k + 1] > f.main) /\ (m < Len(b) => m = f.slots)
      /\ funds' = SubSeq(a, k + 1, Len(a)) /\ places' = SubSeq(b, m + 1, Len(b))
  BY <1>2 DEF Serves
<1>4. ASSUME funds' # <<>> PROVE Price(funds[1])' > free'.main
  <2>1. k < Len(a) /\ funds'[1] = a[k + 1] /\ k + 1 \in 1 .. Len(a) /\ (k + 1) - 1 = k
    BY <1>1, <1>3, <1>4
  <2>2. Need(a)[k + 1] = Need(a)[k] + Price(a[k + 1]) /\ Need(a)[k] \in Nat
    <3>1. /\ Need(a) \in [0 .. Len(a) -> Nat]
          /\ \A i \in 1 .. Len(a) : Need(a)[i] = Need(a)[i - 1] + Price(a[i])
      BY <1>1, NeedSums
    <3> QED BY <1>3, <2>1, <3>1
  <2>3. Price(a[k + 1]) \in Nat
    BY <1>1, <2>1, PriceType
  <2>4. req'[a[k + 1]].len = req[a[k + 1]].len
    BY <1>1, <1>2, <2>1 DEF Passed, Asked
  <2>5. Price(funds[1])' = Price(a[k + 1])
    BY <2>1, <2>4 DEF Price
  <2> DEFINE d == Need(a)[k]
             p == Price(a[k + 1])
  <2>6. d \in Nat /\ p \in Nat /\ free'.main = f.main - d /\ d + p > f.main
    BY <1>3, <2>1, <2>2, <2>3
  <2> HIDE DEF d, p
  <2>7. p > free'.main
    BY <1>1, <2>6
  <2> QED BY <2>5, <2>7 DEF p
<1>5. ASSUME places' # <<>> PROVE free'.slots = 0
  <2>1. m < Len(b)
    BY <1>1, <1>3, <1>5
  <2> QED BY <1>1, <1>3, <2>1
<1> QED BY <1>4, <1>5 DEF Pressed

(***************************************************************************)
(* Chunks                                                                  *)
(***************************************************************************)

\* A text of n bytes and at most the markers that framing adds
Wraps(bytes, n) ==
  /\ bytes \in Seq(Bytes) /\ Len(bytes) <= n + Markers
  /\ \E m \in Nat : m + n <= Len(bytes) /\ \A i \in m + 1 .. m + n : bytes[i].kind = "text"

\* A framed text is one.
LEMMA FrameWraps ==
  ASSUME NEW p \in Paste \cup {None}, NEW len \in Nat, NEW before \in Seq(Bytes),
         NEW after \in Seq(Bytes), Len(before) <= 2, Len(after) <= 1
  PROVE  Wraps(before \o Text(p, len) \o after, len)
<1> DEFINE t == Text(p, len)
           x == before \o t
           c == x \o after
           n == Len(before)
<1>1. t \in Seq(Bytes) /\ Len(t) = len /\ \A i \in 1 .. len : t[i].kind = "text"
  BY DEF Text, Bytes
<1> HIDE DEF t
<1>2. /\ x \in Seq(Bytes) /\ Len(x) = n + len
      /\ \A i \in 1 .. n + len : x[i] = IF i <= n THEN before[i] ELSE t[i - n]
  BY <1>1, ConcatProperties
<1>3. n \in Nat /\ n <= 2 /\ Len(after) \in Nat
  OBVIOUS
<1> HIDE DEF x, n
<1>4. /\ c \in Seq(Bytes) /\ Len(c) = n + len + Len(after)
      /\ \A i \in 1 .. n + len + Len(after) : c[i] = IF i <= n + len THEN x[i] ELSE after[i - (n + len)]
  BY <1>2, ConcatProperties
<1> HIDE DEF c
<1>5. \A i \in n + 1 .. n + len : c[i].kind = "text"
  <2> SUFFICES ASSUME NEW i \in n + 1 .. n + len PROVE c[i].kind = "text"
    OBVIOUS
  <2>1. i \in 1 .. n + len /\ i \in 1 .. n + len + Len(after) /\ i - n \in 1 .. len /\ ~(i <= n)
    BY <1>3
  <2>2. c[i] = x[i]
    BY <1>4, <2>1
  <2>3. x[i] = t[i - n]
    BY <1>2, <2>1
  <2> QED BY <1>1, <2>1, <2>2, <2>3
<1>6. Len(c) <= len + Markers /\ n + len <= Len(c)
  BY <1>3, <1>4 DEF Markers
<1>7. Wraps(c, len)
  BY <1>3, <1>4, <1>5, <1>6 DEF Wraps
<1> QED BY <1>7 DEF c, x, t

\* The marker at the end is one byte.
LEMMA EndByte ==
  ASSUME NEW b, b = <<>> \/ b = <<End>>
  PROVE  b \in Seq(Bytes) /\ Len(b) <= 1 /\ Len(b) <= 2
<1>1. End \in Bytes
  BY DEF End, Bytes
<1>2. CASE b = <<>>
  BY <1>2
<1>3. CASE b = <<End>>
  BY <1>1, <1>3
<1> QED BY <1>2, <1>3

\* Text outside every paste is one.
LEMMA PlainWraps ==
  ASSUME NEW len \in Nat, NEW before \in {<<>>, <<End>>}
  PROVE  Wraps(before \o Text(None, len), len)
<1>1. before \in Seq(Bytes) /\ Len(before) <= 2 /\ <<>> \in Seq(Bytes) /\ Len(<<>>) <= 1
  <2>1. before \in Seq(Bytes) /\ Len(before) <= 2
    BY EndByte
  <2>2. <<>> \in Seq(Bytes) /\ Len(<<>>) <= 1
    OBVIOUS
  <2> QED BY <2>1, <2>2
<1>2. Wraps(before \o Text(None, len) \o <<>>, len)
  BY <1>1, FrameWraps
<1>3. before \o Text(None, len) \o <<>> = before \o Text(None, len)
  <2>1. Text(None, len) \in Seq(Bytes)
    BY DEF Text, Bytes
  <2>2. before \o Text(None, len) \in Seq(Bytes)
    BY <1>1, <2>1, ConcatProperties
  <2> QED BY <2>2, ConcatEmptySeq
<1> QED BY <1>2, <1>3

\* send_outside_paste
LEMMA OutsideWraps ==
  ASSUME NEW len \in Nat
  PROVE  Wraps(Outside(len).bytes, len)
<1> DEFINE before == IF OpenPaste # None THEN <<End>> ELSE <<>>
<1>1. before \in {<<>>, <<End>>} /\ Outside(len).bytes = before \o Text(None, len)
  BY DEF Outside
<1> HIDE DEF before
<1> QED BY <1>1, PlainWraps

\* send_input
LEMMA FramedWraps ==
  ASSUME QueueTypes, NEW s \in Clients, req[s] \in Request
  PROVE  Wraps(Framed(s).bytes, req[s].len)
<1> DEFINE r == req[s]
           continued == r.paste # None /\ open # None /\ open.client = s /\ open.id = r.paste
           p == IF continued THEN open ELSE [client |-> s, id |-> r.paste, since |-> left]
           ended == IF OpenPaste # None /\ ~continued THEN <<End>> ELSE <<>>
           begun == IF continued THEN <<>> ELSE <<Start(p)>>
           after == IF r.more THEN <<>> ELSE <<End>>
<1>1. /\ r.len \in Nat /\ r.more \in BOOLEAN /\ r.paste \in Nat \cup {None}
      /\ open \in Paste \cup {None} /\ left \in Nat
  BY DEF QueueTypes, Request
<1>2. /\ ended \in Seq(Bytes) /\ Len(ended) <= 1 /\ after \in Seq(Bytes) /\ Len(after) <= 1
      /\ ended \in {<<>>, <<End>>}
  <2>1. (ended = <<>> \/ ended = <<End>>) /\ (after = <<>> \/ after = <<End>>)
    OBVIOUS
  <2> HIDE DEF ended, after
  <2>2. ended \in Seq(Bytes) /\ Len(ended) <= 1
    BY <2>1, EndByte
  <2>3. after \in Seq(Bytes) /\ Len(after) <= 1
    BY <2>1, EndByte
  <2> QED BY <2>1, <2>2, <2>3
<1>3. CASE r.paste # None /\ (continued \/ mode)
  <2>1. Framed(s).bytes = ended \o begun \o Text(p, r.len) \o after
    BY <1>3 DEF Framed
  <2>2. p \in Paste
    BY <1>1, <1>3, NoneAssumption DEF Paste
  <2>3. begun \in Seq(Bytes) /\ Len(begun) <= 1
    <3>1. CASE continued
      BY <3>1
    <3>2. CASE ~continued
      <4>1. Start(p) \in Bytes
        BY <2>2 DEF Start, Bytes
      <4>2. begun = <<Start(p)>>
        BY <3>2
      <4> HIDE DEF begun, p
      <4> QED BY <4>1, <4>2
    <3> QED BY <3>1, <3>2
  <2> HIDE DEF begun, ended, after, p
  <2>4. ended \o begun \in Seq(Bytes) /\ Len(ended \o begun) = Len(ended) + Len(begun)
    BY <1>2, <2>3, ConcatProperties
  <2>5. Len(ended) \in Nat /\ Len(begun) \in Nat
    BY <1>2, <2>3, LenProperties
  <2>6. Len(ended \o begun) <= 2
    BY <1>2, <2>3, <2>4, <2>5
  <2>7. Wraps((ended \o begun) \o Text(p, r.len) \o after, r.len)
    BY <1>1, <1>2, <2>2, <2>4, <2>6, FrameWraps
  <2> QED BY <2>1, <2>7
<1>4. CASE ~(r.paste # None /\ (continued \/ mode))
  <2>1. Framed(s).bytes = ended \o Text(None, r.len)
    BY <1>4 DEF Framed
  <2> HIDE DEF ended
  <2> QED BY <1>1, <1>2, <2>1, PlainWraps
<1> QED BY <1>3, <1>4

\* What was reserved for a text covers it with its markers.
LEMMA WrapsCovers ==
  ASSUME NEW c \in Chunks, NEW n \in Nat, Wraps(c.bytes, n), c.from = "main" => c.held = Cost(n, Budget)
  PROVE  Covers(c, 0)
<1> SUFFICES ASSUME Counting(c) PROVE Len(c.bytes) - 0 <= c.held
  BY DEF Covers
<1> DEFINE S == {i \in DOMAIN c.bytes : c.bytes[i].kind = "text"}
           L == Len(c.bytes)
<1>1. c.bytes \in Seq(Bytes) /\ L \in Nat /\ DOMAIN c.bytes = 1 .. L /\ L <= n + Markers
  BY DEF Wraps
<1>2. PICK m \in Nat : m + n <= L /\ \A i \in m + 1 .. m + n : c.bytes[i].kind = "text"
  BY DEF Wraps
<1>3. m + 1 .. m + n \subseteq S
  BY <1>1, <1>2
<1>4. IsFiniteSet(S)
  <2>1. IsFiniteSet(1 .. L)
    BY <1>1, FS_Interval
  <2>2. S \in SUBSET (1 .. L)
    BY <1>1
  <2> QED BY <2>1, <2>2, FS_Subset
<1>5. n <= Cardinality(S) /\ Cardinality(S) \in Nat
  <2>1. Cardinality(m + 1 .. m + n) = n
    <3>1. m + 1 \in Int /\ m + n \in Int
      OBVIOUS
    <3>2. Cardinality(m + 1 .. m + n) = IF m + 1 > m + n THEN 0 ELSE (m + n) - (m + 1) + 1
      BY <3>1, FS_Interval
    <3> QED BY <3>2
  <2>2. Cardinality(m + 1 .. m + n) <= Cardinality(S) /\ Cardinality(S) \in Nat
    <3> HIDE DEF S
    <3> QED BY <1>3, <1>4, FS_Subset, FS_CardinalityType
  <2> QED BY <2>1, <2>2
<1>6. TextsOf(c) = Cardinality(S)
  BY DEF TextsOf
<1>7. c.from = "main" /\ Cardinality(S) + ChunkCost <= Budget
  BY <1>6 DEF Counting
<1> HIDE DEF S, L
<1>8. n + ChunkCost <= Budget
  BY <1>5, <1>7, ChunkCostAssumption, BudgetAssumption
<1>9. c.held = n + ChunkCost
  BY <1>7, <1>8, ChunkCostAssumption, BudgetAssumption DEF Cost, Smaller
<1>10. L - 0 <= c.held
  BY <1>1, <1>9, ChunkCostAssumption DEF Markers
<1> QED BY <1>10 DEF L

Held(c) == IF c.from = "main" THEN c.held ELSE 0
Slot(c) == IF c.slot THEN 1 ELSE 0

\* What chunks hold is counted in numbers.
LEMMA HeldType ==
  ASSUME NEW q \in Seq(Chunks)
  PROVE  /\ HeldOf(q) \in Seq(Nat) /\ Len(HeldOf(q)) = Len(q)
         /\ \A i \in 1 .. Len(q) : HeldOf(q)[i] = Held(q[i]) /\ Held(q[i]) \in Nat
<1>1. Len(q) \in Nat /\ \A i \in 1 .. Len(q) : q[i] \in Chunks
  OBVIOUS
<1>2. \A c \in Chunks : Held(c) \in Nat
  BY DEF Chunks, Held
<1>3. \A i \in 1 .. Len(q) : HeldOf(q)[i] = Held(q[i]) /\ Held(q[i]) \in Nat
  BY <1>1, <1>2 DEF HeldOf, Held
<1>4. HeldOf(q) \in [1 .. Len(q) -> Nat]
  BY <1>3 DEF HeldOf
<1> QED BY <1>1, <1>3, <1>4, SeqDef

\* The same of slots
LEMMA SlotType ==
  ASSUME NEW q \in Seq(Chunks)
  PROVE  /\ SlotOf(q) \in Seq(Nat) /\ Len(SlotOf(q)) = Len(q)
         /\ \A i \in 1 .. Len(q) : SlotOf(q)[i] = Slot(q[i]) /\ Slot(q[i]) \in Nat
<1>1. Len(q) \in Nat
  OBVIOUS
<1>2. \A i \in 1 .. Len(q) : SlotOf(q)[i] = Slot(q[i]) /\ Slot(q[i]) \in Nat
  BY DEF SlotOf, Slot
<1>3. SlotOf(q) \in [1 .. Len(q) -> Nat]
  BY <1>2 DEF SlotOf
<1> QED BY <1>1, <1>2, <1>3, SeqDef

\* The chunks that wait, one after the other
LEMMA QueuedAt ==
  ASSUME QueueTypes
  PROVE  /\ Queued \in Seq(Chunks) /\ Len(Queued) = Len(pending) + Len(chan)
         /\ Len(pending) \in Nat /\ Len(chan) \in Nat
         /\ \A i \in 1 .. Len(pending) + Len(chan) :
              Queued[i] = IF i <= Len(pending) THEN pending[i] ELSE chan[i - Len(pending)]
<1>1. pending \in Seq(Chunks) /\ chan \in Seq(Chunks)
  BY DEF QueueTypes
<1> QED BY <1>1, ConcatProperties, LenProperties DEF Queued

\* The sums over the queue are numbers.
LEMMA QueueTotals ==
  ASSUME QueueTypes
  PROVE  Total(HeldOf(Queued)) \in Nat /\ Total(SlotOf(chan)) \in Nat
<1>1. Queued \in Seq(Chunks) /\ chan \in Seq(Chunks)
  BY QueuedAt DEF QueueTypes
<1>2. HeldOf(Queued) \in Seq(Nat) /\ SlotOf(chan) \in Seq(Nat)
  BY <1>1, HeldType, SlotType
<1> QED BY <1>2, TotalType

\* A sequence of chunks with one more at its end
LEMMA HeldMore ==
  ASSUME NEW q \in Seq(Chunks), NEW v \in Seq(Chunks), Len(v) = Len(q) + 1,
         \A i \in 1 .. Len(q) : v[i] = q[i]
  PROVE  Total(HeldOf(v)) = Total(HeldOf(q)) + Held(v[Len(v)])
<1>1. PICK x \in Seq(Nat), y \in Seq(Nat) : x = HeldOf(q) /\ y = HeldOf(v)
  BY HeldType
<1>2. Len(x) = Len(q) /\ \A i \in 1 .. Len(q) : x[i] = Held(q[i])
  BY <1>1, HeldType
<1>3. Len(y) = Len(v) /\ \A i \in 1 .. Len(v) : y[i] = Held(v[i])
  BY <1>1, HeldType
<1>4. Len(y) = Len(x) + 1 /\ (\A i \in 1 .. Len(x) : y[i] = x[i]) /\ Len(v) \in 1 .. Len(v)
  BY <1>2, <1>3
<1>5. Total(y) = Total(x) + y[Len(y)]
  BY <1>4, TotalMore
<1> QED BY <1>1, <1>3, <1>4, <1>5

\* One less at its start
LEMMA HeldLess ==
  ASSUME NEW q \in Seq(Chunks), NEW v \in Seq(Chunks), Len(q) = Len(v) + 1,
         \A i \in 1 .. Len(v) : v[i] = q[i + 1]
  PROVE  Total(HeldOf(q)) = Total(HeldOf(v)) + Held(q[1])
<1>1. PICK x \in Seq(Nat), y \in Seq(Nat) : x = HeldOf(q) /\ y = HeldOf(v)
  BY HeldType
<1>2. Len(x) = Len(q) /\ \A i \in 1 .. Len(q) : x[i] = Held(q[i])
  BY <1>1, HeldType
<1>3. Len(y) = Len(v) /\ \A i \in 1 .. Len(v) : y[i] = Held(v[i])
  BY <1>1, HeldType
<1>4. Len(y) = Len(x) - 1 /\ 1 \in 1 .. Len(x) /\ \A i \in 1 .. Len(y) : i + 1 \in 1 .. Len(q)
  BY <1>2, <1>3
<1>5. \A i \in 1 .. Len(y) : y[i] = IF i < 1 THEN x[i] ELSE x[i + 1]
  BY <1>2, <1>3, <1>4
<1>6. Total(x) = Total(y) + x[1]
  BY <1>4, <1>5, TotalWithout
<1> QED BY <1>1, <1>2, <1>4, <1>6

\* The slots of one more
LEMMA SlotMore ==
  ASSUME NEW q \in Seq(Chunks), NEW v \in Seq(Chunks), Len(v) = Len(q) + 1,
         \A i \in 1 .. Len(q) : v[i] = q[i]
  PROVE  Total(SlotOf(v)) = Total(SlotOf(q)) + Slot(v[Len(v)])
<1>1. PICK x \in Seq(Nat), y \in Seq(Nat) : x = SlotOf(q) /\ y = SlotOf(v)
  BY SlotType
<1>2. Len(x) = Len(q) /\ \A i \in 1 .. Len(q) : x[i] = Slot(q[i])
  BY <1>1, SlotType
<1>3. Len(y) = Len(v) /\ \A i \in 1 .. Len(v) : y[i] = Slot(v[i])
  BY <1>1, SlotType
<1>4. Len(y) = Len(x) + 1 /\ (\A i \in 1 .. Len(x) : y[i] = x[i]) /\ Len(v) \in 1 .. Len(v)
  BY <1>2, <1>3
<1>5. Total(y) = Total(x) + y[Len(y)]
  BY <1>4, TotalMore
<1> QED BY <1>1, <1>3, <1>4, <1>5

\* The slots of one less
LEMMA SlotLess ==
  ASSUME NEW q \in Seq(Chunks), NEW v \in Seq(Chunks), Len(q) = Len(v) + 1,
         \A i \in 1 .. Len(v) : v[i] = q[i + 1]
  PROVE  Total(SlotOf(q)) = Total(SlotOf(v)) + Slot(q[1])
<1>1. PICK x \in Seq(Nat), y \in Seq(Nat) : x = SlotOf(q) /\ y = SlotOf(v)
  BY SlotType
<1>2. Len(x) = Len(q) /\ \A i \in 1 .. Len(q) : x[i] = Slot(q[i])
  BY <1>1, SlotType
<1>3. Len(y) = Len(v) /\ \A i \in 1 .. Len(v) : y[i] = Slot(v[i])
  BY <1>1, SlotType
<1>4. Len(y) = Len(x) - 1 /\ 1 \in 1 .. Len(x) /\ \A i \in 1 .. Len(y) : i + 1 \in 1 .. Len(q)
  BY <1>2, <1>3
<1>5. \A i \in 1 .. Len(y) : y[i] = IF i < 1 THEN x[i] ELSE x[i + 1]
  BY <1>2, <1>3, <1>4
<1>6. Total(x) = Total(y) + x[1]
  BY <1>4, <1>5, TotalWithout
<1> QED BY <1>1, <1>2, <1>4, <1>6

\* The first chunk holds less.
LEMMA HeldChanged ==
  ASSUME NEW q \in Seq(Chunks), NEW v \in Seq(Chunks), Len(v) = Len(q), Len(q) > 0,
         \A i \in 1 .. Len(q) : i # 1 => v[i] = q[i]
  PROVE  Total(HeldOf(v)) = (Total(HeldOf(q)) - Held(q[1])) + Held(v[1])
<1>1. PICK x \in Seq(Nat), y \in Seq(Nat) : x = HeldOf(q) /\ y = HeldOf(v)
  BY HeldType
<1>2. Len(x) = Len(q) /\ \A i \in 1 .. Len(q) : x[i] = Held(q[i])
  BY <1>1, HeldType
<1>3. Len(y) = Len(v) /\ \A i \in 1 .. Len(v) : y[i] = Held(v[i])
  BY <1>1, HeldType
<1>4. Len(y) = Len(x) /\ 1 \in 1 .. Len(x) /\ 1 \in 1 .. Len(q)
  BY <1>2, <1>3
<1>5. \A i \in 1 .. Len(x) : i # 1 => y[i] = x[i]
  BY <1>2, <1>3, <1>4
<1>6. Total(y) = (Total(x) - x[1]) + y[1]
  BY <1>4, <1>5, TotalChanged
<1> QED BY <1>1, <1>2, <1>3, <1>4, <1>6

(***************************************************************************)
(* Entries of the ledger                                                   *)
(***************************************************************************)

\* Requests that change for one sender only
Differ(r, q, s) ==
  /\ r \in [Senders -> Request] /\ q \in [Senders -> Request] /\ s \in Senders
  /\ \A z \in Senders : z # s => q[z] = r[z]

\* Nobody reserves bytes or gives them back.
LEMMA BytesStay ==
  ASSUME NEW f, NEW g, NEW r, NEW q, NEW s, NEW n, Differ(r, q, s), Bytewise(f, r, n), g.main = f.main,
         r[s].pc \in Holding <=> q[s].pc \in Holding, r[s].pc \in Holding => q[s].len = r[s].len
  PROVE  Bytewise(g, q, n)
<1>1. PICK hs : Roll(hs, r, Holding) /\ f.main + Total(Prices(r, hs)) + n = Budget
  BY DEF Bytewise
<1>2. /\ r \in [Senders -> Request] /\ q \in [Senders -> Request]
      /\ \A z \in Senders : q[z].pc \in Holding <=> r[z].pc \in Holding
      /\ \A z \in Senders : r[z].pc \in Holding => q[z].len = r[z].len
  BY DEF Differ
<1>3. Roll(hs, q, Holding) /\ Total(Prices(q, hs)) = Total(Prices(r, hs))
  BY <1>1, <1>2, RollStays
<1> QED BY <1>1, <1>3 DEF Bytewise

\* A sender's bytes are a number.
LEMMA RollTotal ==
  ASSUME NEW r \in [Senders -> Request], NEW hs, NEW pcs, Roll(hs, r, pcs)
  PROVE  Total(Prices(r, hs)) \in Nat /\ Len(hs) \in Nat
<1>1. hs \in Seq(Senders)
  BY DEF Roll
<1> QED BY <1>1, PricesType, TotalType

\* One sender reserves bytes.
LEMMA BytesTaken ==
  ASSUME NEW f, NEW g, NEW r, NEW q, NEW s, NEW n \in Nat, Differ(r, q, s), Bytewise(f, r, n),
         f.main \in Nat, g.main = f.main - Cost(q[s].len, Budget),
         r[s].pc \notin Holding, q[s].pc \in Holding
  PROVE  Bytewise(g, q, n)
<1>1. PICK hs : Roll(hs, r, Holding) /\ f.main + Total(Prices(r, hs)) + n = Budget
  BY DEF Bytewise
<1>2. /\ r \in [Senders -> Request] /\ q \in [Senders -> Request] /\ s \in Senders
      /\ \A z \in Senders : z # s => q[z] = r[z]
  BY DEF Differ
<1>3. PICK gs : /\ Roll(gs, q, Holding)
                /\ Total(Prices(q, gs)) = Total(Prices(r, hs)) + Cost(q[s].len, Budget)
  BY <1>1, <1>2, RollJoin
<1>4. PICK t \in Nat, d \in Nat : t = Total(Prices(r, hs)) /\ d = Cost(q[s].len, Budget)
  <2>1. q[s].len \in Nat
    BY <1>2 DEF Request
  <2> QED BY <1>1, <1>2, <2>1, RollTotal, CostType, BudgetAssumption
<1>5. (f.main - d) + (t + d) + n = Budget
  BY <1>1, <1>4
<1> QED BY <1>3, <1>4, <1>5 DEF Bytewise

\* One sender gives its bytes back, or to a chunk.
LEMMA BytesBack ==
  ASSUME NEW f, NEW g, NEW r, NEW q, NEW s, NEW n \in Nat, NEW m \in Nat, Differ(r, q, s),
         Bytewise(f, r, n), f.main \in Nat, g.main \in Nat,
         g.main + m = f.main + n + Cost(r[s].len, Budget),
         r[s].pc \in Holding, q[s].pc \notin Holding
  PROVE  Bytewise(g, q, m)
<1>1. PICK hs : Roll(hs, r, Holding) /\ f.main + Total(Prices(r, hs)) + n = Budget
  BY DEF Bytewise
<1>2. /\ r \in [Senders -> Request] /\ q \in [Senders -> Request] /\ s \in Senders
      /\ \A z \in Senders : z # s => q[z] = r[z]
  BY DEF Differ
<1>3. PICK gs : /\ Roll(gs, q, Holding)
                /\ Total(Prices(r, hs)) = Total(Prices(q, gs)) + Cost(r[s].len, Budget)
  BY <1>1, <1>2, RollLeaves
<1>4. PICK t \in Nat, d \in Nat : t = Total(Prices(q, gs)) /\ d = Cost(r[s].len, Budget)
  <2>1. r[s].len \in Nat
    BY <1>2 DEF Request
  <2> QED BY <1>2, <1>3, <2>1, RollTotal, CostType, BudgetAssumption
<1>5. f.main + (t + d) + n = Budget /\ g.main + m = f.main + n + d
  BY <1>1, <1>3, <1>4
<1>6. g.main + t + m = Budget
  BY <1>4, <1>5, BudgetAssumption
<1> QED BY <1>3, <1>4, <1>6 DEF Bytewise

\* Nobody reserves bytes, and what chunks hold is what is not free.
LEMMA BytesMoved ==
  ASSUME NEW f, NEW g, NEW r, NEW n \in Nat, NEW m \in Nat, r \in [Senders -> Request],
         Bytewise(f, r, n), f.main \in Nat, g.main \in Nat, g.main + m = f.main + n
  PROVE  Bytewise(g, r, m)
<1>1. PICK hs : Roll(hs, r, Holding) /\ f.main + Total(Prices(r, hs)) + n = Budget
  BY DEF Bytewise
<1>2. PICK t \in Nat : t = Total(Prices(r, hs))
  BY <1>1, RollTotal
<1>3. g.main + t + m = Budget
  BY <1>1, <1>2
<1> QED BY <1>1, <1>2, <1>3 DEF Bytewise

\* The same of slots
LEMMA SlotsStay ==
  ASSUME NEW f, NEW g, NEW r, NEW q, NEW s, NEW n, Differ(r, q, s), Slotwise(f, r, n), g.slots = f.slots,
         r[s].pc # "ready", q[s].pc # "ready"
  PROVE  Slotwise(g, q, n)
<1>1. PICK rs : Roll(rs, r, Ready) /\ f.slots + Len(rs) + n = Slots
  BY DEF Slotwise
<1>2. /\ r \in [Senders -> Request] /\ q \in [Senders -> Request]
      /\ \A z \in Senders : q[z].pc \in Ready <=> r[z].pc \in Ready
      /\ \A z \in Senders : r[z].pc \in Ready => q[z].len = r[z].len
  BY DEF Differ, Ready
<1>3. Roll(rs, q, Ready)
  BY <1>1, <1>2, RollStays
<1> QED BY <1>1, <1>3 DEF Slotwise

\* One sender takes a slot.
LEMMA SlotTaken ==
  ASSUME NEW f, NEW g, NEW r, NEW q, NEW s, NEW n \in Nat, Differ(r, q, s), Slotwise(f, r, n),
         f.slots \in Nat, g.slots = f.slots - 1, r[s].pc # "ready", q[s].pc = "ready"
  PROVE  Slotwise(g, q, n)
<1>1. PICK rs : Roll(rs, r, Ready) /\ f.slots + Len(rs) + n = Slots
  BY DEF Slotwise
<1>2. /\ r \in [Senders -> Request] /\ q \in [Senders -> Request] /\ s \in Senders
      /\ \A z \in Senders : z # s => q[z] = r[z]
  BY DEF Differ
<1>3. r[s].pc \notin Ready /\ q[s].pc \in Ready
  BY DEF Ready
<1>4. PICK gs : Roll(gs, q, Ready) /\ Len(gs) = Len(rs) + 1
  BY <1>1, <1>2, <1>3, RollJoin
<1>5. Len(rs) \in Nat
  BY <1>1, <1>2, RollTotal
<1>6. g.slots + Len(gs) + n = Slots
  BY <1>1, <1>4, <1>5
<1> QED BY <1>4, <1>6 DEF Slotwise

\* One sender gives its slot to a chunk.
LEMMA SlotQueued ==
  ASSUME NEW f, NEW g, NEW r, NEW q, NEW s, NEW n \in Nat, Differ(r, q, s), Slotwise(f, r, n),
         f.slots \in Nat, g.slots = f.slots, r[s].pc = "ready", q[s].pc # "ready"
  PROVE  Slotwise(g, q, n + 1)
<1>1. PICK rs : Roll(rs, r, Ready) /\ f.slots + Len(rs) + n = Slots
  BY DEF Slotwise
<1>2. /\ r \in [Senders -> Request] /\ q \in [Senders -> Request] /\ s \in Senders
      /\ \A z \in Senders : z # s => q[z] = r[z]
  BY DEF Differ
<1>3. r[s].pc \in Ready /\ q[s].pc \notin Ready
  BY DEF Ready
<1>4. PICK gs : Roll(gs, q, Ready) /\ Len(rs) = Len(gs) + 1
  BY <1>1, <1>2, <1>3, RollLeaves
<1>5. Len(gs) \in Nat
  BY <1>2, <1>4, RollTotal
<1>6. g.slots + Len(gs) + (n + 1) = Slots
  BY <1>1, <1>4, <1>5
<1> QED BY <1>4, <1>6 DEF Slotwise

\* Nobody takes a slot, and what chunks hold is what is not free.
LEMMA SlotsMoved ==
  ASSUME NEW f, NEW g, NEW r, NEW n \in Nat, NEW m \in Nat, r \in [Senders -> Request],
         Slotwise(f, r, n), f.slots \in Nat, g.slots \in Nat, g.slots + m = f.slots + n
  PROVE  Slotwise(g, r, m)
<1>1. PICK rs : Roll(rs, r, Ready) /\ f.slots + Len(rs) + n = Slots
  BY DEF Slotwise
<1>2. PICK k \in Nat : k = Len(rs)
  BY <1>1, RollTotal
<1>3. f.slots + k + n = Slots
  BY <1>1, <1>2
<1>4. g.slots + k + m = Slots
  <2>1. PICK x \in Nat, y \in Nat : x = f.slots /\ y = g.slots
    OBVIOUS
  <2>2. x + k + n = Slots /\ y + m = x + n
    BY <1>3, <2>1
  <2>3. y + k + m = Slots
    BY <2>2, BudgetAssumption
  <2> QED BY <2>1, <2>3
<1> QED BY <1>1, <1>2, <1>4 DEF Slotwise

(***************************************************************************)
(* Each step keeps the ledger.                                             *)
(***************************************************************************)

\* What the queue is to the ledger does not change.
SameQueue == UNCHANGED <<chan, pending, written>>

\* A step that leaves the queue alone leaves what it holds.
LEMMA KeepQueued ==
  ASSUME SameQueue
  PROVE  Queued' = Queued /\ (Covered => Covered') /\ SlotOf(chan)' = SlotOf(chan)
         /\ HeldOf(Queued)' = HeldOf(Queued)
<1>1. chan' = chan /\ pending' = pending /\ written' = written
  BY DEF SameQueue
<1>2. Queued' = Queued
  BY <1>1 DEF Queued
<1>3. Covered => Covered'
  BY <1>1, <1>2 DEF Covered, Covers, Counting, TextsOf
<1> QED BY <1>1, <1>2, <1>3 DEF HeldOf, SlotOf

\* A step that leaves the senders and the queue alone keeps the ledger.
LEMMA KeepLedger ==
  ASSUME IInv, Ledger, SameQueue, UNCHANGED <<req, free, funds, places>>
  PROVE  Ledger'
<1>1. Covered' /\ SlotOf(chan)' = SlotOf(chan) /\ HeldOf(Queued)' = HeldOf(Queued)
  BY KeepQueued DEF Ledger
<1>2. Pressed'
  BY DEF Ledger, Pressed, Price
<1>3. /\ Bytewise(free, req, Total(HeldOf(Queued))) /\ Slotwise(free, req, Total(SlotOf(chan)))
  BY DEF Ledger
<1>4. Total(HeldOf(Queued))' = Total(HeldOf(Queued)) /\ Total(SlotOf(chan))' = Total(SlotOf(chan))
  BY <1>1 DEF Total
<1>5. /\ Bytewise(free', req', Total(HeldOf(Queued))') /\ Slotwise(free', req', Total(SlotOf(chan))')
  BY <1>3, <1>4
<1> QED BY <1>1, <1>2, <1>5 DEF Ledger

\* reserve
LEMMA AskLedger ==
  ASSUME IInv, Ledger, NEW s \in Senders, NEW len \in Nat, len > 0, NEW paste \in Nat \cup {None},
         NEW more \in BOOLEAN, Ask(s, len, paste, more)
  PROVE  Ledger'
<1> DEFINE cost == Cost(len, Budget)
           pc == IF funds # <<>> \/ cost > free.main THEN "funds"
                 ELSE IF places # <<>> \/ free.slots = 0 THEN "place" ELSE "ready"
           x == [pc |-> pc, len |-> len, paste |-> paste, more |-> more]
<1>1. /\ req[s].pc = "idle" /\ ~closed
      /\ req' = [req EXCEPT ![s] = x]
      /\ funds' = (IF pc = "funds" THEN Append(funds, s) ELSE funds)
      /\ places' = (IF pc = "place" THEN Append(places, s) ELSE places)
      /\ free' = [free EXCEPT !.main = IF pc = "funds" THEN @ ELSE @ - cost,
                              !.slots = IF pc = "ready" THEN @ - 1 ELSE @]
      /\ SameQueue
  BY DEF Ask, SameQueue, queueVars
<1>2. cost \in Nat
  BY CostType, BudgetAssumption
<1>3. /\ free.main \in Nat /\ free.slots \in Nat /\ free \in Room /\ Lined(req, funds, places)
      /\ req \in [Senders -> Request] /\ funds \in Seq(Senders) /\ places \in Seq(Senders)
      /\ QueueTypes
  BY DEF IInv, SenderTypes, Room, Lined
<1>4. /\ pc \in {"funds", "place", "ready"} /\ (pc = "funds" <=> (funds # <<>> \/ cost > free.main))
      /\ (pc = "place" => funds = <<>> /\ (places # <<>> \/ free.slots = 0))
      /\ (pc = "ready" => funds = <<>> /\ places = <<>> /\ free.slots > 0)
  BY <1>2, <1>3
<1>5. free'.main = (IF pc = "funds" THEN free.main ELSE free.main - cost)
      /\ free'.slots = (IF pc = "ready" THEN free.slots - 1 ELSE free.slots)
  <2> HIDE DEF pc, cost
  <2> QED BY <1>1, <1>3 DEF Room
<1> HIDE DEF cost, pc
<1>6. x \in Request /\ x.len = len /\ x.pc = pc
  BY <1>4 DEF Request
<1> HIDE DEF x
<1>7. Differ(req, req', s) /\ req'[s] = x
  BY <1>1, <1>3, <1>6 DEF Differ
<1>8. Covered' /\ SlotOf(chan)' = SlotOf(chan) /\ HeldOf(Queued)' = HeldOf(Queued)
  BY <1>1, KeepQueued DEF Ledger
<1>9. PICK n \in Nat, m \in Nat : n = Total(HeldOf(Queued)) /\ m = Total(SlotOf(chan))
  BY <1>3, QueueTotals
<1>10. Total(HeldOf(Queued))' = n /\ Total(SlotOf(chan))' = m
  BY <1>8, <1>9 DEF Total
<1>11. Bytewise(free, req, n) /\ Slotwise(free, req, m) /\ Pressed
  BY <1>9 DEF Ledger
<1>12. Bytewise(free', req', n)
  <2>1. CASE pc = "funds"
    <3>1. req'[s].pc \notin Holding /\ req[s].pc \notin Holding /\ free'.main = free.main
      BY <1>1, <1>5, <1>6, <1>7, <2>1 DEF Holding
    <3> QED BY <1>7, <1>11, <3>1, BytesStay
  <2>2. CASE pc # "funds"
    <3>1. /\ req'[s].pc \in Holding /\ req[s].pc \notin Holding
          /\ free'.main = free.main - Cost(req'[s].len, Budget)
      BY <1>1, <1>4, <1>5, <1>6, <1>7, <2>2 DEF Holding, cost
    <3> QED BY <1>3, <1>7, <1>11, <3>1, BytesTaken
  <2> QED BY <2>1, <2>2
<1>13. Slotwise(free', req', m)
  <2>1. CASE pc = "ready"
    <3>1. req'[s].pc = "ready" /\ req[s].pc # "ready" /\ free'.slots = free.slots - 1
      BY <1>1, <1>5, <1>6, <1>7, <2>1
    <3> QED BY <1>3, <1>7, <1>11, <3>1, SlotTaken
  <2>2. CASE pc # "ready"
    <3>1. req'[s].pc # "ready" /\ req[s].pc # "ready" /\ free'.slots = free.slots
      BY <1>1, <1>5, <1>6, <1>7, <2>2
    <3> QED BY <1>7, <1>11, <3>1, SlotsStay
  <2> QED BY <2>1, <2>2
<1>14. ASSUME funds' # <<>> PROVE Price(funds[1])' > free'.main
  <2>1. pc = "funds"
    BY <1>1, <1>4, <1>14
  <2>2. funds' = Append(funds, s) /\ free'.main = free.main
    BY <1>1, <1>5, <2>1
  <2>3. CASE funds = <<>>
    <3>1. funds'[1] = s
      BY <2>2, <2>3
    <3>2. cost > free.main
      BY <1>4, <2>1, <2>3
    <3> QED BY <1>6, <1>7, <2>2, <3>1, <3>2 DEF Price, cost
  <2>4. CASE funds # <<>>
    <3>1. funds'[1] = funds[1] /\ funds[1] \in Senders /\ 1 \in 1 .. Len(funds)
      BY <1>3, <2>2, <2>4
    <3>2. funds[1] # s
      BY <1>1, <1>3, <3>1 DEF Lined
    <3>3. req'[funds[1]] = req[funds[1]]
      BY <1>7, <3>1, <3>2 DEF Differ
    <3>4. Price(funds[1])' = Price(funds[1])
      BY <3>1, <3>3 DEF Price
    <3> QED BY <1>11, <2>2, <2>4, <3>4 DEF Pressed
  <2> QED BY <2>3, <2>4
<1>15. ASSUME places' # <<>> PROVE free'.slots = 0
  <2>1. CASE pc = "place"
    BY <1>4, <1>5, <1>11, <2>1 DEF Pressed
  <2>2. CASE pc # "place"
    <3>1. places' = places /\ pc # "ready" /\ free'.slots = free.slots
      BY <1>1, <1>4, <1>5, <1>15, <2>2
    <3> QED BY <1>11, <1>15, <3>1 DEF Pressed
  <2> QED BY <2>1, <2>2
<1>16. Pressed'
  BY <1>14, <1>15 DEF Pressed
<1> QED BY <1>8, <1>10, <1>12, <1>13, <1>16 DEF Ledger

\* A sender goes on to the slot.
LEMMA PollLedger ==
  ASSUME IInv, Ledger, NEW s \in Senders, Poll(s)
  PROVE  Ledger'
<1> DEFINE now == places = <<>> /\ free.slots > 0
           x == [req[s] EXCEPT !.pc = IF now THEN "ready" ELSE "place"]
<1>1. /\ req[s].pc = "funded" /\ ~closed
      /\ req' = [req EXCEPT ![s].pc = IF now THEN "ready" ELSE "place"]
      /\ places' = (IF now THEN places ELSE Append(places, s))
      /\ free' = (IF now THEN [free EXCEPT !.slots = @ - 1] ELSE free)
      /\ SameQueue /\ funds' = funds
  BY DEF Poll, SameQueue, queueVars
<1>2. /\ free.slots \in Nat /\ free.main \in Nat /\ free \in Room /\ Lined(req, funds, places)
      /\ req[s] \in Request /\ req \in [Senders -> Request] /\ QueueTypes
      /\ funds \in Seq(Senders)
  BY <1>1 DEF IInv, SenderTypes, Room, Lined
<1>3. req' = [req EXCEPT ![s] = x]
  BY <1>1, <1>2
<1>4. x \in Request /\ x.len = req[s].len /\ x.pc = IF now THEN "ready" ELSE "place"
  BY <1>2 DEF Request
<1> HIDE DEF x
<1>5. Differ(req, req', s) /\ req'[s] = x
  BY <1>2, <1>3, <1>4 DEF Differ
<1>6. free'.main = free.main /\ free'.slots = IF now THEN free.slots - 1 ELSE free.slots
  <2>1. CASE now
    <3>1. free' = [free EXCEPT !.slots = free.slots - 1]
      BY <1>1, <2>1
    <3> QED BY <1>2, <2>1, <3>1 DEF Room
  <2>2. CASE ~now
    BY <1>1, <2>2
  <2> QED BY <2>1, <2>2
<1>7. Covered' /\ SlotOf(chan)' = SlotOf(chan) /\ HeldOf(Queued)' = HeldOf(Queued)
  BY <1>1, KeepQueued DEF Ledger
<1>8. PICK n \in Nat, m \in Nat : n = Total(HeldOf(Queued)) /\ m = Total(SlotOf(chan))
  BY <1>2, QueueTotals
<1>9. Total(HeldOf(Queued))' = n /\ Total(SlotOf(chan))' = m
  BY <1>7, <1>8 DEF Total
<1>10. Bytewise(free, req, n) /\ Slotwise(free, req, m) /\ Pressed
  BY <1>8 DEF Ledger
<1>11. Bytewise(free', req', n)
  <2>1. /\ req'[s].pc \in Holding /\ req[s].pc \in Holding /\ free'.main = free.main
        /\ req'[s].len = req[s].len
    BY <1>1, <1>4, <1>5, <1>6 DEF Holding
  <2> QED BY <1>5, <1>10, <2>1, BytesStay
<1>12. Slotwise(free', req', m)
  <2>1. CASE now
    <3>1. req'[s].pc = "ready" /\ req[s].pc # "ready" /\ free'.slots = free.slots - 1
      BY <1>1, <1>4, <1>5, <1>6, <2>1
    <3> HIDE DEF now
    <3> QED BY <1>2, <1>5, <1>10, <3>1, SlotTaken
  <2>2. CASE ~now
    <3>1. req'[s].pc # "ready" /\ req[s].pc # "ready" /\ free'.slots = free.slots
      BY <1>1, <1>4, <1>5, <1>6, <2>2
    <3> HIDE DEF now
    <3> QED BY <1>5, <1>10, <3>1, SlotsStay
  <2> QED BY <2>1, <2>2
<1>13. ASSUME funds' # <<>> PROVE Price(funds[1])' > free'.main
  <2>1. funds[1] \in Senders /\ 1 \in 1 .. Len(funds) /\ funds # <<>>
    BY <1>1, <1>2, <1>13
  <2>2. funds[1] # s
    BY <1>1, <1>2, <2>1 DEF Lined
  <2>3. req'[funds[1]] = req[funds[1]]
    BY <1>5, <2>1, <2>2 DEF Differ
  <2>4. Price(funds[1])' = Price(funds[1])
    BY <1>1, <2>3 DEF Price
  <2> QED BY <1>6, <1>10, <2>1, <2>4 DEF Pressed
<1>14. ASSUME places' # <<>> PROVE free'.slots = 0
  <2>1. ~now
    BY <1>1, <1>14
  <2> QED BY <1>2, <1>6, <1>10, <2>1 DEF Pressed
<1>15. Pressed'
  BY <1>13, <1>14 DEF Pressed
<1> QED BY <1>7, <1>9, <1>11, <1>12, <1>15 DEF Ledger

\* Permits that come back to the lines keep the ledger, if it is right once
\* they are free.
LEMMA SettleLedger ==
  ASSUME req \in [Senders -> Request], NEW f, NEW a, NEW b, NEW r, Asked(f, a, b, r),
         NEW n \in Nat, NEW m \in Nat, Bytewise(f, r, n), Slotwise(f, r, m),
         Total(HeldOf(Queued))' = n, Total(SlotOf(chan))' = m, Covered'
  PROVE  Ledger'
<1>1. Bytewise(free', req', n)
  BY SettleBytes
<1>2. Slotwise(free', req', m)
  BY SettleSlots
<1>3. Pressed'
  BY SettlePressed
<1> QED BY <1>1, <1>2, <1>3 DEF Ledger

\* A sender gives up.
LEMMA GiveUpLedger ==
  ASSUME IInv, Ledger, NEW s \in Senders, GiveUp(s)
  PROVE  Ledger'
<1> DEFINE d == IF req[s].pc = "funds" THEN 0 ELSE Price(s)
           e == IF req[s].pc = "ready" THEN 1 ELSE 0
           f == [free EXCEPT !.main = @ + d, !.slots = @ + e]
           a == RemoveFirst(funds, s)
           b == RemoveFirst(places, s)
           r == [req EXCEPT ![s] = Idle]
<1>1. ~closed /\ Settle(f, a, b, r) /\ SameQueue /\ req[s].pc \in {"funds", "funded", "place", "ready"}
  BY DEF GiveUp, SameQueue, queueVars, Waits
<1>2. /\ Lined(req, funds, places) /\ free \in Room /\ req \in [Senders -> Request] /\ QueueTypes
      /\ free.main \in Nat /\ free.slots \in Nat
  BY DEF IInv, SenderTypes, Lined, Room
<1>3. d \in Nat /\ Price(s) \in Nat /\ (req[s].pc = "funds" => d = 0)
      /\ (req[s].pc # "funds" => d = Cost(req[s].len, Budget))
      /\ e \in Nat /\ (req[s].pc # "ready" => e = 0) /\ (req[s].pc = "ready" => e = 1)
  BY <1>2, PriceType DEF Price
<1> HIDE DEF d, e
<1>4. f \in Room /\ f.main = free.main + d /\ f.slots = free.slots + e
  <2>1. free \in Room /\ d \in Nat /\ e \in Nat
    BY <1>2, <1>3
  <2> QED BY <2>1, RoomBack
<1>5. Lined(r, a, b) /\ \A i \in 1 .. Len(a) : a[i] \in Senders /\ a[i] # s
  BY <1>2, GiveUpLines
<1>6. Differ(req, r, s) /\ r[s] = Idle
  BY <1>2, IdleType DEF Differ
<1> HIDE DEF a, b, r, f
<1>7. Asked(f, a, b, r)
  BY <1>1, <1>4, <1>5, <1>6 DEF Asked, Differ
<1>8. Covered' /\ SlotOf(chan)' = SlotOf(chan) /\ HeldOf(Queued)' = HeldOf(Queued)
  BY <1>1, KeepQueued DEF Ledger
<1>9. PICK n \in Nat, m \in Nat : n = Total(HeldOf(Queued)) /\ m = Total(SlotOf(chan))
  BY <1>2, QueueTotals
<1>10. Total(HeldOf(Queued))' = n /\ Total(SlotOf(chan))' = m
  BY <1>8, <1>9 DEF Total
<1>11. Bytewise(free, req, n) /\ Slotwise(free, req, m)
  BY <1>9 DEF Ledger
<1>12. r[s].pc = "idle"
  BY <1>6, IdleType
<1>13. Bytewise(f, r, n)
  <2>1. CASE req[s].pc = "funds"
    <3>1. req[s].pc \notin Holding /\ r[s].pc \notin Holding /\ f.main = free.main
      BY <1>2, <1>3, <1>4, <1>12, <2>1 DEF Holding
    <3> QED BY <1>6, <1>11, <3>1, BytesStay
  <2>2. CASE req[s].pc # "funds"
    <3>1. req[s].pc \in Holding /\ r[s].pc \notin Holding
      BY <1>1, <1>12, <2>2 DEF Holding
    <3>2. f.main \in Nat /\ f.main + n = free.main + n + Cost(req[s].len, Budget)
      BY <1>2, <1>3, <1>4, <2>2
    <3> QED BY <1>2, <1>6, <1>11, <3>1, <3>2, BytesBack
  <2> QED BY <2>1, <2>2
<1>14. Slotwise(f, r, m)
  <2>1. r[s].pc # "ready" /\ r \in [Senders -> Request]
    BY <1>6, <1>12 DEF Differ
  <2>2. CASE req[s].pc # "ready"
    <3>1. f.slots = free.slots
      BY <1>2, <1>3, <1>4, <2>2
    <3> QED BY <1>6, <1>11, <2>1, <2>2, <3>1, SlotsStay
  <2>3. CASE req[s].pc = "ready"
    <3>1. Slotwise(free, r, m + 1)
      BY <1>2, <1>6, <1>11, <2>1, <2>3, SlotQueued
    <3>2. f.slots \in Nat /\ f.slots + m = free.slots + (m + 1) /\ m + 1 \in Nat
      BY <1>2, <1>3, <1>4, <2>3
    <3> QED BY <1>2, <2>1, <3>1, <3>2, SlotsMoved
  <2> QED BY <2>2, <2>3
<1> QED BY <1>2, <1>7, <1>8, <1>10, <1>13, <1>14, SettleLedger

\* A chunk that covers what it holds comes at the end of the queue.
LEMMA PushQueue ==
  ASSUME QueueTypes, QueueTypes', Reading, Covered, NEW x \in Chunks, Covers(x, 0),
         chan' = Append(chan, x), UNCHANGED <<pending, written>>
  PROVE  /\ Covered' /\ Total(HeldOf(Queued))' = Total(HeldOf(Queued)) + Held(x)
         /\ Total(SlotOf(chan))' = Total(SlotOf(chan)) + Slot(x)
<1>0. chan \in Seq(Chunks) /\ pending \in Seq(Chunks) /\ chan' \in Seq(Chunks)
  BY DEF QueueTypes
<1>1. PICK q \in Seq(Chunks) : q = Queued
  BY QueuedAt
<1>2. PICK v \in Seq(Chunks) : v = Queued'
  <2>1. pending \o chan' \in Seq(Chunks) /\ Queued' = pending \o chan'
    BY <1>0, ConcatProperties DEF Queued
  <2> QED BY <2>1
<1>3. /\ Len(chan') = Len(chan) + 1 /\ chan'[Len(chan) + 1] = x
      /\ \A i \in 1 .. Len(chan) : chan'[i] = chan[i]
  BY <1>0
<1>4. PICK P \in Nat, C \in Nat : P = Len(pending) /\ C = Len(chan)
  BY <1>0
<1>5. Len(q) = P + C /\ \A i \in 1 .. P + C : q[i] = IF i <= P THEN pending[i] ELSE chan[i - P]
  BY <1>1, <1>4, QueuedAt
<1>6. Len(v) = P + (C + 1)
      /\ \A i \in 1 .. P + (C + 1) : v[i] = IF i <= P THEN pending[i] ELSE chan'[i - P]
  <2>1. PICK c \in Seq(Chunks) : c = chan' /\ Len(c) = C + 1
    BY <1>0, <1>3, <1>4
  <2>2. v = pending \o c
    BY <1>2, <2>1 DEF Queued
  <2>3. /\ Len(pending \o c) = P + (C + 1)
        /\ \A i \in 1 .. P + (C + 1) : (pending \o c)[i] = IF i <= P THEN pending[i] ELSE c[i - P]
    <3>1. /\ Len(pending \o c) = Len(pending) + Len(c)
          /\ \A i \in 1 .. Len(pending) + Len(c) :
               (pending \o c)[i] = IF i <= Len(pending) THEN pending[i] ELSE c[i - Len(pending)]
      BY <1>0, ConcatProperties
    <3> QED BY <1>4, <2>1, <3>1
  <2> QED BY <2>1, <2>2, <2>3
<1>7. Len(v) = Len(q) + 1 /\ v[Len(v)] = x /\ \A i \in 1 .. Len(q) : v[i] = q[i]
  <2>1. v[P + (C + 1)] = x
    <3>1. P + (C + 1) \in 1 .. P + (C + 1) /\ ~(P + (C + 1) <= P) /\ (P + (C + 1)) - P = C + 1
      BY <1>4
    <3> QED BY <1>3, <1>4, <1>6, <3>1
  <2>2. ASSUME NEW i \in 1 .. Len(q) PROVE v[i] = q[i]
    <3>1. i \in 1 .. P + C /\ i \in 1 .. P + (C + 1)
      BY <1>4, <1>5
    <3>2. CASE i <= P
      BY <1>5, <1>6, <3>1, <3>2
    <3>3. CASE ~(i <= P)
      <4>1. i - P \in 1 .. Len(chan)
        BY <1>4, <3>1, <3>3
      <4> QED BY <1>3, <1>5, <1>6, <3>1, <3>3, <4>1
    <3> QED BY <3>2, <3>3
  <2> QED BY <1>4, <1>5, <1>6, <2>1, <2>2
<1>8. Total(HeldOf(v)) = Total(HeldOf(q)) + Held(x)
  BY <1>7, HeldMore
<1>9. Total(SlotOf(chan')) = Total(SlotOf(chan)) + Slot(x)
  <2>1. PICK y \in Seq(Chunks), z \in Seq(Chunks) : y = chan /\ z = chan'
    BY <1>0
  <2>2. Len(z) = Len(y) + 1 /\ z[Len(z)] = x /\ \A i \in 1 .. Len(y) : z[i] = y[i]
    BY <1>3, <2>1
  <2>3. Total(SlotOf(z)) = Total(SlotOf(y)) + Slot(z[Len(z)])
    BY <2>2, SlotMore
  <2> QED BY <2>1, <2>2, <2>3
<1>10. Covered'
  <2> SUFFICES ASSUME NEW i \in 1 .. Len(v) PROVE Covers(v[i], IF i = 1 THEN written ELSE 0)
    BY <1>2 DEF Covered, Covers, Counting, TextsOf
  <2>1. CASE i \in 1 .. Len(q)
    BY <1>1, <1>7, <2>1 DEF Covered
  <2>2. CASE i \notin 1 .. Len(q)
    <3>1. i = Len(v) /\ v[i] = x /\ i = Len(q) + 1 /\ Len(q) \in Nat
      BY <1>7, <2>2
    <3>2. CASE i = 1
      <4>1. P = 0
        BY <1>4, <1>5, <3>1, <3>2
      <4>2. pending = <<>>
        <5>1. pending # <<>> => Len(pending) \in Nat \ {0}
          BY <1>0, EmptySeq
        <5> QED BY <1>4, <4>1, <5>1
      <4>3. written = 0
        BY <4>2 DEF Reading
      <4> QED BY <3>1, <3>2, <4>3
    <3>3. CASE i # 1
      BY <3>1, <3>3
    <3> QED BY <3>2, <3>3
  <2> QED BY <2>1, <2>2
<1> QED BY <1>1, <1>2, <1>8, <1>9, <1>10

\* A sender queues its chunk: what it held the chunk holds.
LEMMA SendLedger ==
  ASSUME IInv, IInv', Ledger, ~closed, NEW s \in Senders, Send(s)
  PROVE  Ledger'
<1> DEFINE framed == IF s \in Clients THEN Framed(s) ELSE Outside(req[s].len)
           x == Chunk(framed.bytes, "main", Price(s), TRUE)
<1>1. /\ req[s].pc = "ready" /\ req' = [req EXCEPT ![s] = Idle]
      /\ chan' = Append(chan, x)
      /\ UNCHANGED <<free, funds, places, pending, written>>
  BY DEF Send, roomVars
<1>2. /\ QueueTypes /\ QueueTypes' /\ Lined(req, funds, places) /\ Reading /\ free \in Room
      /\ req \in [Senders -> Request] /\ free.main \in Nat /\ free.slots \in Nat
      /\ funds \in Seq(Senders)
  BY DEF IInv, SenderTypes, Streamed, Lined, Room
<1>3. req[s] \in Request /\ req[s].len \in Nat /\ Price(s) \in Nat
      /\ Price(s) = Cost(req[s].len, Budget)
  BY <1>1, <1>2, PriceType DEF Request, Price
<1>4. Wraps(framed.bytes, req[s].len)
  BY <1>2, <1>3, FramedWraps, OutsideWraps
<1> HIDE DEF framed
<1>5. x \in Chunks /\ x.bytes = framed.bytes /\ x.from = "main" /\ x.held = Price(s) /\ x.slot = TRUE
  BY <1>3, <1>4 DEF Chunks, Chunk, Wraps
<1> HIDE DEF x
<1>6. Covers(x, 0)
  BY <1>3, <1>4, <1>5, WrapsCovers
<1>7. PICK n \in Nat, m \in Nat : n = Total(HeldOf(Queued)) /\ m = Total(SlotOf(chan))
  BY <1>2, QueueTotals
<1>8. Covered' /\ Total(HeldOf(Queued))' = n + Price(s) /\ Total(SlotOf(chan))' = m + 1
  <2>1. Held(x) = Price(s) /\ Slot(x) = 1
    BY <1>5 DEF Held, Slot
  <2> QED BY <1>1, <1>2, <1>5, <1>6, <1>7, <2>1, PushQueue DEF Ledger
<1>9. Bytewise(free, req, n) /\ Slotwise(free, req, m) /\ Pressed
  BY <1>7 DEF Ledger
<1>10. Differ(req, req', s) /\ req'[s].pc = "idle"
  BY <1>1, <1>2, IdleType DEF Differ
<1>11. Bytewise(free', req', n + Price(s))
  <2>1. req[s].pc \in Holding /\ req'[s].pc \notin Holding
    BY <1>1, <1>10 DEF Holding
  <2>2. /\ n + Price(s) \in Nat /\ free'.main \in Nat
        /\ free'.main + (n + Price(s)) = free.main + n + Cost(req[s].len, Budget)
    BY <1>1, <1>2, <1>3
  <2> QED BY <1>2, <1>9, <1>10, <2>1, <2>2, BytesBack
<1>12. Slotwise(free', req', m + 1)
  <2>1. req[s].pc = "ready" /\ req'[s].pc # "ready" /\ free'.slots = free.slots
    BY <1>1, <1>10
  <2> QED BY <1>2, <1>9, <1>10, <2>1, SlotQueued
<1>13. Pressed'
  <2>1. ASSUME funds # <<>> PROVE Price(funds[1])' = Price(funds[1])
    <3>1. funds[1] \in Senders /\ 1 \in 1 .. Len(funds)
      BY <1>2, <2>1
    <3>2. funds[1] # s
      BY <1>1, <1>2, <3>1 DEF Lined
    <3>3. req'[funds[1]] = req[funds[1]]
      BY <1>10, <3>1, <3>2 DEF Differ
    <3> QED BY <1>1, <3>3 DEF Price
  <2> QED BY <1>1, <1>9, <2>1 DEF Pressed
<1> QED BY <1>8, <1>11, <1>12, <1>13 DEF Ledger

\* The end of a paste alone is covered too.
LEMMA EndCovers ==
  ASSUME NEW c \in Chunks, c.bytes = <<End>>, c.from = "main" => c.held = Cost(1, Budget)
  PROVE  Covers(c, 0)
<1> SUFFICES ASSUME Counting(c) PROVE Len(c.bytes) - 0 <= c.held
  BY DEF Covers
<1>1. Len(c.bytes) = 1 /\ c.held = Cost(1, Budget)
  BY DEF Counting
<1>2. Cost(1, Budget) >= 1 /\ Cost(1, Budget) \in Nat
  BY ChunkCostAssumption, BudgetAssumption DEF Cost, Smaller, Markers
<1> QED BY <1>1, <1>2

\* Room that is found without waiting was there, and nobody waited for it.
LEMMA QueueStep ==
  ASSUME free \in Room, NEW lane \in {"main", "control", "urgent"},
         lane = "urgent" \/ RoomIn(lane, 1) # None, NEW bytes \in Seq(Bytes),
         Queue(RoomIn(lane, 1), bytes, 1)
  PROVE  \E x \in Chunks :
           /\ x.bytes = bytes /\ chan' = Append(chan, x)
           /\ x.from = "main" => x.held = Cost(1, Budget) /\ funds = <<>>
           /\ x.slot => places = <<>>
           /\ free'.main + Held(x) = free.main /\ free'.slots + Slot(x) = free.slots
           /\ x.from # "main" => free'.main = free.main
           /\ ~x.slot => free'.slots = free.slots
<1>1. PICK from \in {"main", "control", "none"} :
        /\ from = RoomIn(lane, 1)
        /\ from = "main" => Cost(1, Budget) <= free.main /\ free.slots > 0
        /\ from = "control" => Cost(1, Control) <= free.control /\ free.slots > 0
  BY RoomFound
<1>2. (from = "main" => funds = <<>>) /\ (from # "none" => places = <<>>)
  BY <1>1, NoneAssumption DEF RoomIn
<1> DEFINE held == [main |-> Cost(1, Budget), control |-> Cost(1, Control), none |-> 0][from]
           x == Chunk(bytes, from, held, from # "none")
<1>3. /\ chan' = Append(chan, x)
      /\ free' = IF from = "none" THEN free ELSE [free EXCEPT ![from] = @ - held, !.slots = @ - 1]
  BY <1>1 DEF Queue
<1>4. /\ Cost(1, Budget) \in Nat /\ Cost(1, Control) \in Nat
      /\ free.main \in Nat /\ free.control \in Nat /\ free.slots \in Nat
  BY CostType, BudgetAssumption DEF Room
<1>5. /\ from = "main" => held = Cost(1, Budget)
      /\ from = "control" => held = Cost(1, Control)
      /\ from = "none" => held = 0
  OBVIOUS
<1> HIDE DEF held
<1>6. held \in Nat
  BY <1>4, <1>5
<1>7. x \in Chunks /\ x.bytes = bytes /\ x.from = from /\ x.held = held /\ x.slot = (from # "none")
  <2>1. (from # "none") \in BOOLEAN
    OBVIOUS
  <2> QED BY <1>6, <2>1 DEF Chunks, Chunk
<1> HIDE DEF x
<1>8. CASE from = "none"
  <2>1. free' = free /\ Held(x) = 0 /\ Slot(x) = 0 /\ ~x.slot /\ x.from # "main"
    BY <1>3, <1>7, <1>8 DEF Held, Slot
  <2>2. free'.main + Held(x) = free.main /\ free'.slots + Slot(x) = free.slots
    BY <1>4, <2>1
  <2> QED BY <1>3, <1>7, <2>1, <2>2
<1>9. CASE from = "main"
  <2>1. free' = [free EXCEPT !.main = free.main - held, !.slots = free.slots - 1]
    BY <1>3, <1>9 DEF Room
  <2>2. free'.main = free.main - held /\ free'.slots = free.slots - 1
    BY <2>1 DEF Room
  <2>3. Held(x) = held /\ Slot(x) = 1 /\ x.slot /\ x.from = "main"
    BY <1>7, <1>9 DEF Held, Slot
  <2>4. free'.main + Held(x) = free.main /\ free'.slots + Slot(x) = free.slots
    BY <1>4, <1>6, <2>2, <2>3
  <2> QED BY <1>2, <1>3, <1>5, <1>7, <1>9, <2>3, <2>4
<1>10. CASE from = "control"
  <2>1. free' = [free EXCEPT !.control = free.control - held, !.slots = free.slots - 1]
    BY <1>3, <1>10 DEF Room
  <2>2. free'.main = free.main /\ free'.slots = free.slots - 1
    BY <2>1 DEF Room
  <2>3. Held(x) = 0 /\ Slot(x) = 1 /\ x.slot /\ x.from # "main"
    BY <1>7, <1>10 DEF Held, Slot
  <2>4. free'.main + Held(x) = free.main /\ free'.slots + Slot(x) = free.slots
    BY <1>4, <1>6, <2>2, <2>3
  <2> QED BY <1>2, <1>3, <1>7, <1>10, <2>2, <2>3, <2>4
<1> QED BY <1>8, <1>9, <1>10

\* At most one idle sender has left.
Left(r, q) ==
  q = r \/ \E s \in Senders : Differ(r, q, s) /\ r[s].pc = "idle" /\ q[s].pc = "gone"

\* Input that does not wait
LEMMA QueueLedger ==
  ASSUME IInv, IInv', Ledger, ~closed, NEW lane \in {"main", "control", "urgent"},
         lane = "urgent" \/ RoomIn(lane, 1) # None, NEW bytes \in Seq(Bytes),
         Queue(RoomIn(lane, 1), bytes, 1), bytes = <<End>> \/ Wraps(bytes, 1),
         Left(req, req'), UNCHANGED <<funds, places, pending, written>>
  PROVE  Ledger'
<1>1. /\ QueueTypes /\ QueueTypes' /\ Lined(req, funds, places) /\ Reading /\ free \in Room
      /\ free' \in Room /\ req \in [Senders -> Request] /\ req' \in [Senders -> Request]
      /\ free.main \in Nat /\ free.slots \in Nat
      /\ free'.main \in Nat /\ free'.slots \in Nat /\ funds \in Seq(Senders)
  BY DEF IInv, SenderTypes, Streamed, Lined, Room
<1>2. PICK x \in Chunks :
        /\ x.bytes = bytes /\ chan' = Append(chan, x)
        /\ x.from = "main" => x.held = Cost(1, Budget) /\ funds = <<>>
        /\ x.slot => places = <<>>
        /\ free'.main + Held(x) = free.main /\ free'.slots + Slot(x) = free.slots
        /\ x.from # "main" => free'.main = free.main
        /\ ~x.slot => free'.slots = free.slots
  BY <1>1, QueueStep
<1>3. Covers(x, 0)
  <2>1. CASE bytes = <<End>>
    BY <1>2, <2>1, EndCovers
  <2>2. CASE Wraps(bytes, 1)
    BY <1>2, <2>2, WrapsCovers
  <2> QED BY <2>1, <2>2
<1>4. PICK n \in Nat, m \in Nat : n = Total(HeldOf(Queued)) /\ m = Total(SlotOf(chan))
  BY <1>1, QueueTotals
<1>5. Held(x) \in Nat /\ Slot(x) \in Nat
  BY DEF Held, Slot, Chunks
<1>6. Covered' /\ Total(HeldOf(Queued))' = n + Held(x) /\ Total(SlotOf(chan))' = m + Slot(x)
  BY <1>1, <1>2, <1>3, <1>4, PushQueue DEF Ledger
<1>7. Bytewise(free, req, n) /\ Slotwise(free, req, m) /\ Pressed
  BY <1>4 DEF Ledger
<1>8. Bytewise(free', req, n + Held(x))
  <2>1. n + Held(x) \in Nat /\ free'.main + (n + Held(x)) = free.main + n
    <3>1. PICK h \in Nat, y \in Nat, z \in Nat : h = Held(x) /\ y = free'.main /\ z = free.main
      BY <1>1, <1>5
    <3>2. y + h = z
      BY <1>2, <3>1
    <3>3. n + h \in Nat /\ y + (n + h) = z + n
      BY <3>2
    <3> QED BY <3>1, <3>3
  <2> QED BY <1>1, <1>7, <2>1, BytesMoved
<1>9. Slotwise(free', req, m + Slot(x))
  <2>1. m + Slot(x) \in Nat /\ free'.slots + (m + Slot(x)) = free.slots + m
    <3>1. PICK h \in Nat, y \in Nat, z \in Nat : h = Slot(x) /\ y = free'.slots /\ z = free.slots
      BY <1>1, <1>5
    <3>2. y + h = z
      BY <1>2, <3>1
    <3>3. m + h \in Nat /\ y + (m + h) = z + m
      BY <3>2
    <3> QED BY <3>1, <3>3
  <2> QED BY <1>1, <1>7, <2>1, SlotsMoved
<1>10. Bytewise(free', req', n + Held(x)) /\ Slotwise(free', req', m + Slot(x))
  <2>1. CASE req' = req
    BY <1>8, <1>9, <2>1
  <2>2. CASE req' # req
    <3>0. PICK s \in Senders : Differ(req, req', s) /\ req[s].pc = "idle" /\ req'[s].pc = "gone"
      BY <2>2 DEF Left
    <3>1. req[s].pc \notin Holding /\ req'[s].pc \notin Holding
      BY <3>0 DEF Holding
    <3>2. Bytewise(free', req', n + Held(x))
      BY <1>8, <3>0, <3>1, BytesStay
    <3>3. Slotwise(free', req', m + Slot(x))
      BY <1>9, <3>0, SlotsStay
    <3> QED BY <3>2, <3>3
  <2> QED BY <2>1, <2>2
<1>11. ASSUME funds' # <<>> PROVE Price(funds[1])' > free'.main
  <2>1. funds[1] \in Senders /\ 1 \in 1 .. Len(funds) /\ funds # <<>> /\ funds' = funds
    BY <1>1, <1>11
  <2>2. req'[funds[1]] = req[funds[1]]
    <3>1. CASE req' = req
      BY <3>1
    <3>2. CASE req' # req
      <4>1. PICK s \in Senders : Differ(req, req', s) /\ req[s].pc = "idle"
        BY <3>2 DEF Left
      <4>2. funds[1] # s
        BY <1>1, <2>1, <4>1 DEF Lined
      <4> QED BY <2>1, <4>1, <4>2 DEF Differ
    <3> QED BY <3>1, <3>2
  <2>3. Price(funds[1])' = Price(funds[1])
    BY <2>1, <2>2 DEF Price
  <2>4. free'.main = free.main
    BY <1>2, <2>1
  <2> QED BY <1>7, <2>1, <2>3, <2>4 DEF Pressed
<1>12. ASSUME places' # <<>> PROVE free'.slots = 0
  BY <1>2, <1>7, <1>12 DEF Pressed
<1>13. Pressed'
  BY <1>11, <1>12 DEF Pressed
<1> QED BY <1>6, <1>10, <1>13 DEF Ledger

\* A mouse report or a key that must not wait
LEMMA TrySendLedger ==
  ASSUME IInv, IInv', Ledger, NEW lane \in {"main", "control", "urgent"}, TrySend(lane)
  PROVE  Ledger'
<1>1. /\ ~closed /\ RoomIn(lane, 1) # None
      /\ Queue(RoomIn(lane, 1), Outside(1).bytes, 1)
      /\ UNCHANGED <<req, funds, places, pending, written>>
  BY DEF TrySend
<1>2. Wraps(Outside(1).bytes, 1)
  BY OutsideWraps
<1>3. Outside(1).bytes \in Seq(Bytes)
  BY <1>2 DEF Wraps
<1>4. Left(req, req')
  BY <1>1 DEF Left
<1> QED BY <1>1, <1>2, <1>3, <1>4, QueueLedger

\* A client leaves.
LEMMA DetachLedger ==
  ASSUME IInv, IInv', Ledger, ~closed, NEW c \in Clients, Detach(c)
  PROVE  Ledger'
<1> DEFINE mine == ~closed /\ OpenPaste # None /\ open.client = c
<1>1. /\ req[c].pc = "idle" /\ req' = [req EXCEPT ![c].pc = "gone"]
      /\ IF mine THEN Queue(RoomIn("urgent", 1), <<End>>, 1) ELSE UNCHANGED <<chan, free>>
      /\ UNCHANGED <<funds, places, pending, written>>
  BY DEF Detach
<1>2. /\ c \in Senders /\ req \in [Senders -> Request] /\ req' \in [Senders -> Request]
      /\ Lined(req, funds, places) /\ funds \in Seq(Senders)
  BY DEF IInv, SenderTypes, Lined, Senders
<1>3. req'[c].pc = "gone" /\ Differ(req, req', c)
  BY <1>1, <1>2 DEF Differ, Request
<1>4. CASE mine
  <2>1. <<End>> \in Seq(Bytes)
    BY EndByte
  <2>2. Queue(RoomIn("urgent", 1), <<End>>, 1)
    BY <1>1, <1>4
  <2>3. Left(req, req')
    BY <1>1, <1>2, <1>3 DEF Left
  <2> HIDE DEF mine
  <2> QED BY <1>1, <2>1, <2>2, <2>3, QueueLedger
<1>5. CASE ~mine
  <2>1. SameQueue /\ free' = free
    BY <1>1, <1>5 DEF SameQueue
  <2>2. Covered' /\ SlotOf(chan)' = SlotOf(chan) /\ HeldOf(Queued)' = HeldOf(Queued)
    BY <2>1, KeepQueued DEF Ledger
  <2>3. PICK n, m : n = Total(HeldOf(Queued)) /\ m = Total(SlotOf(chan))
    OBVIOUS
  <2>4. Total(HeldOf(Queued))' = n /\ Total(SlotOf(chan))' = m
    BY <2>2, <2>3 DEF Total
  <2>5. Bytewise(free, req, n) /\ Slotwise(free, req, m) /\ Pressed
    BY <2>3 DEF Ledger
  <2>6. Bytewise(free', req', n)
    <3>1. req[c].pc \notin Holding /\ req'[c].pc \notin Holding
      BY <1>1, <1>3 DEF Holding
    <3> QED BY <1>3, <2>1, <2>5, <3>1, BytesStay
  <2>7. Slotwise(free', req', m)
    BY <1>1, <1>3, <2>1, <2>5, SlotsStay
  <2>8. Pressed'
    <3>1. ASSUME funds # <<>> PROVE Price(funds[1])' = Price(funds[1])
      <4>1. funds[1] \in Senders /\ 1 \in 1 .. Len(funds)
        BY <1>2, <3>1
      <4>2. funds[1] # c
        BY <1>1, <1>2, <4>1 DEF Lined
      <4>3. req'[funds[1]] = req[funds[1]]
        BY <1>3, <4>1, <4>2 DEF Differ
      <4> QED BY <1>1, <4>3 DEF Price
    <3> QED BY <1>1, <2>1, <2>5, <3>1 DEF Pressed
  <2> QED BY <2>2, <2>4, <2>6, <2>7, <2>8 DEF Ledger
<1> QED BY <1>4, <1>5

\* The PTY task takes the first chunk over: its slot is free again.
LEMMA RecvLedger ==
  ASSUME IInv, IInv', Ledger, Recv
  PROVE  Ledger'
<1> DEFINE d == IF chan[1].slot THEN 1 ELSE 0
           f == [free EXCEPT !.slots = @ + d]
           x == [chan[1] EXCEPT !.slot = FALSE]
<1>1. /\ ~closed /\ chan # <<>> /\ pending' = Append(pending, x) /\ chan' = Tail(chan)
      /\ Settle(f, funds, places, req) /\ written' = written
  BY DEF Recv
<1>2. /\ QueueTypes /\ QueueTypes' /\ free \in Room /\ Lined(req, funds, places)
      /\ req \in [Senders -> Request] /\ free.main \in Nat /\ free.slots \in Nat
  BY DEF IInv, SenderTypes, Lined, Room
<1>3. /\ chan[1] \in Chunks /\ chan \in Seq(Chunks) /\ pending \in Seq(Chunks)
      /\ chan' \in Seq(Chunks) /\ pending' \in Seq(Chunks)
  BY <1>1, <1>2 DEF QueueTypes
<1>4. /\ x \in Chunks /\ x.from = chan[1].from /\ x.held = chan[1].held /\ x.bytes = chan[1].bytes
      /\ d = Slot(chan[1]) /\ d \in Nat
  BY <1>3 DEF Chunks, Slot
<1> HIDE DEF x, d
<1>5. f \in Room /\ f.main = free.main /\ f.slots = free.slots + d
  BY <1>2, <1>4 DEF Room
<1> HIDE DEF f
<1>6. Asked(f, funds, places, req)
  BY <1>1, <1>2, <1>5 DEF Asked
<1>7. PICK P \in Nat, C \in Nat : P = Len(pending) /\ C = Len(chan) /\ C > 0
  <2>1. Len(chan) \in Nat \ {0}
    BY <1>1, <1>3, EmptySeq
  <2> QED BY <1>3, <2>1
<1>8. PICK a \in Seq(Chunks), c \in Seq(Chunks), q \in Seq(Chunks), v \in Seq(Chunks) :
        a = pending' /\ c = chan' /\ q = Queued /\ v = Queued'
  <2>1. pending' \o chan' \in Seq(Chunks) /\ Queued' = pending' \o chan'
    BY <1>3, ConcatProperties DEF Queued
  <2> QED BY <1>2, <1>3, <2>1, QueuedAt
<1>9. /\ Len(a) = P + 1 /\ a[P + 1] = x /\ \A i \in 1 .. P : a[i] = pending[i]
  BY <1>1, <1>3, <1>4, <1>7, <1>8
<1>10. /\ Len(c) = C - 1 /\ \A i \in 1 .. C - 1 : c[i] = chan[i + 1]
  BY <1>1, <1>3, <1>7, <1>8
<1>11. Len(q) = P + C /\ \A i \in 1 .. P + C : q[i] = IF i <= P THEN pending[i] ELSE chan[i - P]
  BY <1>2, <1>7, <1>8, QueuedAt
<1>12. /\ Len(v) = P + C
       /\ \A i \in 1 .. P + C : v[i] = IF i <= P + 1 THEN a[i] ELSE c[i - (P + 1)]
  <2>1. /\ Len(a \o c) = Len(a) + Len(c)
        /\ \A i \in 1 .. Len(a) + Len(c) : (a \o c)[i] = IF i <= Len(a) THEN a[i] ELSE c[i - Len(a)]
    BY ConcatProperties
  <2>2. v = a \o c /\ Len(a) + Len(c) = P + C
    BY <1>7, <1>8, <1>9, <1>10 DEF Queued
  <2> QED BY <1>9, <2>1, <2>2
<1>13. ASSUME NEW i \in 1 .. P + C
       PROVE  v[i].from = q[i].from /\ v[i].held = q[i].held /\ v[i].bytes = q[i].bytes
  <2>1. CASE i <= P
    BY <1>7, <1>9, <1>11, <1>12, <2>1
  <2>2. CASE i = P + 1
    <3>1. v[i] = x /\ q[i] = chan[1]
      BY <1>7, <1>9, <1>11, <1>12, <2>2
    <3> QED BY <1>4, <3>1
  <2>3. CASE i > P + 1
    <3>1. i - (P + 1) \in 1 .. C - 1 /\ (i - (P + 1)) + 1 = i - P /\ ~(i <= P) /\ ~(i <= P + 1)
      BY <1>7, <2>3
    <3>2. v[i] = c[i - (P + 1)] /\ c[i - (P + 1)] = chan[i - P] /\ q[i] = chan[i - P]
      BY <1>10, <1>11, <1>12, <3>1
    <3> QED BY <3>2
  <2> QED BY <1>7, <2>1, <2>2, <2>3
<1>14. HeldOf(v) = HeldOf(q)
  BY <1>11, <1>12, <1>13 DEF HeldOf
<1>15. Covered'
  <2> SUFFICES ASSUME NEW i \in 1 .. Len(v) PROVE Covers(v[i], IF i = 1 THEN written ELSE 0)
    BY <1>1, <1>8 DEF Covered, Covers, Counting, TextsOf
  <2>1. Covers(q[i], IF i = 1 THEN written ELSE 0)
    BY <1>8, <1>11, <1>12 DEF Covered, Ledger
  <2> QED BY <1>12, <1>13, <2>1 DEF Covers, Counting, TextsOf
<1>16. PICK n \in Nat, m \in Nat, k \in Nat :
         n = Total(HeldOf(Queued)) /\ m = Total(SlotOf(chan)) /\ k = Total(SlotOf(c))
  <2>1. SlotOf(c) \in Seq(Nat)
    BY SlotType
  <2> QED BY <1>2, <2>1, QueueTotals, TotalType
<1>17. m = k + d
  <2>1. PICK y \in Seq(Chunks) : y = chan
    BY <1>3
  <2>2. Len(y) = Len(c) + 1 /\ \A i \in 1 .. Len(c) : c[i] = y[i + 1]
    BY <1>7, <1>10, <2>1
  <2>3. Total(SlotOf(y)) = Total(SlotOf(c)) + Slot(y[1])
    BY <2>2, SlotLess
  <2> QED BY <1>4, <1>16, <2>1, <2>3
<1>18. Total(HeldOf(Queued))' = n /\ Total(SlotOf(chan))' = k
  BY <1>8, <1>14, <1>16
<1>19. Bytewise(free, req, n) /\ Slotwise(free, req, m)
  BY <1>16 DEF Ledger
<1>20. Bytewise(f, req, n)
  BY <1>5, <1>19 DEF Bytewise
<1>21. Slotwise(f, req, k)
  <2>1. f.slots \in Nat /\ f.slots + k = free.slots + m
    BY <1>2, <1>4, <1>5, <1>17
  <2> QED BY <1>2, <1>19, <2>1, SlotsMoved
<1> QED BY <1>2, <1>6, <1>15, <1>18, <1>20, <1>21, SettleLedger

\* What the first chunk gives back when the program reads a byte of it, and what
\* it covers then
LEMMA GivesBack ==
  ASSUME NEW c \in Chunks, NEW n, n = GivenBack(c, FALSE), NEW k \in Nat, k < Len(c.bytes), Covers(c, k)
  PROVE  /\ n \in Nat /\ n <= c.held
         /\ Covers([c EXCEPT !.held = c.held - n], k + 1)
<1> DEFINE x == [c EXCEPT !.held = c.held - n]
<1>1. c.held \in Nat /\ c.bytes \in Seq(Bytes)
  BY DEF Chunks
<1>2. PICK h \in Nat, L \in Nat : h = c.held /\ L = Len(c.bytes)
  BY <1>1
<1>3. n \in Nat /\ n <= h /\ (h > ChunkCost => n = 1) /\ (h <= ChunkCost => n = 0)
  BY <1>2, ChunkCostAssumption DEF GivenBack, Smaller
<1>4. x.from = c.from /\ x.bytes = c.bytes /\ x.held = h - n
  BY <1>2 DEF Chunks
<1>5. ASSUME Counting(c) PROVE L - (k + 1) <= h - n
  <2>1. L - k <= h /\ k < L
    BY <1>2, <1>5 DEF Covers
  <2>2. CASE h > ChunkCost
    <3>1. L - (k + 1) <= h - 1
      BY <2>1
    <3> QED BY <1>3, <2>2, <3>1
  <2>3. CASE h <= ChunkCost
    <3>1. L - (k + 1) <= h - 0
      BY <2>1
    <3> QED BY <1>3, <2>3, <3>1
  <2>4. ChunkCost \in Nat
    BY ChunkCostAssumption
  <2>5. h > ChunkCost \/ h <= ChunkCost
    BY <2>4
  <2> QED BY <2>2, <2>3, <2>5
<1> HIDE DEF x
<1>6. Covers(x, k + 1)
  <2>1. Counting(x) => Counting(c)
    BY <1>4 DEF Counting, TextsOf
  <2> QED BY <1>2, <1>4, <1>5, <2>1 DEF Covers
<1> QED BY <1>2, <1>3, <1>6 DEF x

\* Bytes that come back to the budget they are from
LEMMA ReturnedRoom ==
  ASSUME free \in Room, NEW from \in {"main", "control", "none"}, NEW g \in Nat
  PROVE  /\ Returned(from, g) \in Room /\ Returned(from, g).slots = free.slots
         /\ Returned(from, g).main = free.main + (IF from = "main" THEN g ELSE 0)
<1>1. CASE from = "none"
  BY <1>1 DEF Returned, Room
<1>2. CASE from = "main"
  <2>1. Returned(from, g) = [free EXCEPT !.main = free.main + g]
    BY <1>2 DEF Returned, Room
  <2> QED BY <1>2, <2>1 DEF Room
<1>3. CASE from = "control"
  <2>1. Returned(from, g) = [free EXCEPT !.control = free.control + g]
    BY <1>3 DEF Returned, Room
  <2> QED BY <1>3, <2>1 DEF Room
<1> QED BY <1>1, <1>2, <1>3

\* The program reads a byte.
LEMMA WriteInputLedger ==
  ASSUME IInv, IInv', Ledger, WriteInput
  PROVE  Ledger'
<1> DEFINE chunk == pending[1]
           through == written + 1 = Len(chunk.bytes)
           g == GivenBack(chunk, through)
           f == Returned(chunk.from, g)
<1>1. /\ ~closed /\ pending # <<>>
      /\ pending' = (IF through THEN Tail(pending) ELSE [pending EXCEPT ![1].held = @ - g])
      /\ written' = (IF through THEN 0 ELSE written + 1)
      /\ Settle(f, funds, places, req) /\ chan' = chan
  BY DEF WriteInput
<1>2. /\ QueueTypes /\ QueueTypes' /\ free \in Room /\ Lined(req, funds, places) /\ Reading
      /\ req \in [Senders -> Request] /\ free.main \in Nat /\ free.slots \in Nat
  BY <1>1 DEF IInv, SenderTypes, Lined, Room, Streamed
<1>3. /\ pending \in Seq(Chunks) /\ chan \in Seq(Chunks) /\ pending' \in Seq(Chunks)
      /\ written \in Nat
  BY <1>2 DEF QueueTypes
<1>4. PICK P \in Nat, C \in Nat : P = Len(pending) /\ C = Len(chan) /\ P > 0
  <2>1. Len(pending) \in Nat \ {0}
    BY <1>1, <1>3, EmptySeq
  <2> QED BY <1>3, <2>1
<1>5. /\ chunk \in Chunks /\ chunk.held \in Nat /\ chunk.from \in {"main", "control", "none"}
      /\ written < Len(chunk.bytes)
  <2>1. chunk \in Chunks
    BY <1>3, <1>4
  <2>2. At(1) = chunk.bytes
    BY <1>4 DEF At
  <2> HIDE DEF chunk
  <2> QED BY <1>1, <1>2, <2>1, <2>2 DEF Chunks, Reading
<1>6. PICK q \in Seq(Chunks), v \in Seq(Chunks), a \in Seq(Chunks) :
        q = Queued /\ v = Queued' /\ a = pending'
  <2>1. pending' \o chan' \in Seq(Chunks) /\ Queued' = pending' \o chan'
    BY <1>1, <1>3, ConcatProperties DEF Queued
  <2> QED BY <1>2, <1>3, <2>1, QueuedAt
<1>7. Len(q) = P + C /\ \A i \in 1 .. P + C : q[i] = IF i <= P THEN pending[i] ELSE chan[i - P]
  BY <1>2, <1>4, <1>6, QueuedAt
<1>8. q[1] = chunk /\ 1 \in 1 .. P + C /\ Covers(chunk, written)
  <2>1. q[1] = chunk /\ 1 \in 1 .. P + C
    BY <1>4, <1>7
  <2>2. Covers(q[1], written)
    BY <1>6, <1>7, <2>1 DEF Ledger, Covered
  <2> QED BY <2>1, <2>2
<1>9. /\ Len(v) = Len(a) + C
      /\ \A i \in 1 .. Len(a) + C : v[i] = IF i <= Len(a) THEN a[i] ELSE chan[i - Len(a)]
  <2>1. /\ Len(a \o chan) = Len(a) + Len(chan)
        /\ \A i \in 1 .. Len(a) + Len(chan) :
             (a \o chan)[i] = IF i <= Len(a) THEN a[i] ELSE chan[i - Len(a)]
    BY <1>3, ConcatProperties
  <2>2. v = a \o chan
    BY <1>1, <1>6 DEF Queued
  <2> QED BY <1>4, <2>1, <2>2
<1>10. PICK n \in Nat, k \in Nat, m \in Nat :
         n = Total(HeldOf(q)) /\ k = Total(HeldOf(v)) /\ m = Total(SlotOf(chan))
  <2>1. HeldOf(q) \in Seq(Nat) /\ HeldOf(v) \in Seq(Nat)
    BY HeldType
  <2> QED BY <1>2, <2>1, QueueTotals, TotalType
<1>11. PICK h \in Nat, e \in Nat :
         /\ h = (IF chunk.from = "main" THEN g ELSE 0) /\ n = k + h /\ e = g /\ Covered'
  <2>1. CASE through
    <3>1. g = chunk.held /\ a = Tail(pending) /\ written' = 0
      BY <1>1, <1>6, <2>1 DEF GivenBack
    <3>2. Len(a) = P - 1 /\ \A i \in 1 .. P - 1 : a[i] = pending[i + 1]
      BY <1>3, <1>4, <3>1
    <3>3. Len(q) = Len(v) + 1
      BY <1>4, <1>7, <1>9, <3>2
    <3>4. ASSUME NEW i \in 1 .. Len(v) PROVE v[i] = q[i + 1]
      <4>1. i \in 1 .. (P - 1) + C /\ i + 1 \in 1 .. P + C
        BY <1>4, <1>9, <3>2
      <4>2. v[i] = IF i <= P - 1 THEN a[i] ELSE chan[i - (P - 1)]
        BY <1>9, <3>2, <4>1
      <4>3. q[i + 1] = IF i + 1 <= P THEN pending[i + 1] ELSE chan[(i + 1) - P]
        BY <1>7, <4>1
      <4>4. CASE i <= P - 1
        BY <1>4, <3>2, <4>1, <4>2, <4>3, <4>4
      <4>5. CASE ~(i <= P - 1)
        <5>1. i - (P - 1) = (i + 1) - P /\ ~(i + 1 <= P)
          BY <1>4, <4>1, <4>5
        <5> QED BY <4>2, <4>3, <4>5, <5>1
      <4> QED BY <4>4, <4>5
    <3>5. Total(HeldOf(q)) = Total(HeldOf(v)) + Held(q[1])
      BY <3>3, <3>4, HeldLess
    <3>6. Held(q[1]) = (IF chunk.from = "main" THEN g ELSE 0) /\ g \in Nat /\ Held(q[1]) \in Nat
      BY <1>5, <1>8, <3>1 DEF Held
    <3>7. Covered'
      <4> SUFFICES ASSUME NEW i \in 1 .. Len(v) PROVE Covers(v[i], 0)
        BY <1>6, <3>1 DEF Covered, Covers, Counting, TextsOf
      <4>1. i + 1 \in 1 .. Len(q) /\ i + 1 # 1
        BY <3>3
      <4>2. Covers(q[i + 1], 0)
        BY <1>6, <4>1 DEF Ledger, Covered
      <4> QED BY <3>4, <4>2
    <3> QED BY <1>10, <3>5, <3>6, <3>7
  <2>2. CASE ~through
    <3> DEFINE x == [chunk EXCEPT !.held = chunk.held - g]
    <3>1. /\ pending' = [pending EXCEPT ![1] = x] /\ written' = written + 1
      BY <1>1, <1>3, <2>2
    <3>2. g = GivenBack(chunk, FALSE)
      BY <2>2 DEF GivenBack
    <3>3. g \in Nat /\ g <= chunk.held /\ Covers(x, written + 1)
      <4> HIDE DEF g, chunk
      <4> QED BY <1>3, <1>5, <1>8, <3>2, GivesBack
    <3> HIDE DEF g, through
    <3>4. x.from = chunk.from /\ x.held = chunk.held - g
      <4> HIDE DEF chunk
      <4> QED BY <1>5 DEF Chunks
    <3> HIDE DEF x, chunk
    <3>5. Len(a) = P /\ a[1] = x /\ \A i \in 1 .. P : i # 1 => a[i] = pending[i]
      BY <1>3, <1>4, <1>6, <3>1
    <3>6. Len(v) = Len(q) /\ Len(q) > 0 /\ v[1] = x
      BY <1>4, <1>7, <1>9, <3>5
    <3>7. ASSUME NEW i \in 1 .. Len(q), i # 1 PROVE v[i] = q[i]
      <4>1. i \in 1 .. P + C
        BY <1>7
      <4>2. v[i] = IF i <= P THEN a[i] ELSE chan[i - P]
        BY <1>9, <3>5, <4>1
      <4> QED BY <1>4, <1>7, <3>5, <3>7, <4>1, <4>2
    <3>8. Total(HeldOf(v)) = (Total(HeldOf(q)) - Held(q[1])) + Held(v[1])
      BY <3>6, <3>7, HeldChanged
    <3>9. PICK h \in Nat : h = (IF chunk.from = "main" THEN g ELSE 0) /\ n = k + h
      <4>1. CASE chunk.from = "main"
        <5>1. Held(q[1]) = chunk.held /\ Held(v[1]) = chunk.held - g
          BY <1>8, <3>4, <3>6, <4>1 DEF Held
        <5>2. PICK y \in Nat, z \in Nat : y = chunk.held /\ z = g
          BY <1>5, <3>3
        <5>3. k = (n - y) + (y - z)
          BY <1>10, <3>8, <5>1, <5>2
        <5>4. n = k + z
          BY <5>3
        <5> QED BY <4>1, <5>2, <5>4
      <4>2. CASE chunk.from # "main"
        <5>1. Held(q[1]) = 0 /\ Held(v[1]) = 0
          BY <1>8, <3>4, <3>6, <4>2 DEF Held
        <5>2. k = (n - 0) + 0
          BY <1>10, <3>8, <5>1
        <5>3. n = k + 0
          BY <5>2
        <5> QED BY <4>2, <5>3
      <4> QED BY <4>1, <4>2
    <3>10. Covered'
      <4> SUFFICES ASSUME NEW i \in 1 .. Len(v)
                   PROVE  Covers(v[i], IF i = 1 THEN written + 1 ELSE 0)
        BY <1>6, <3>1 DEF Covered, Covers, Counting, TextsOf
      <4>1. CASE i = 1
        BY <3>3, <3>6, <4>1
      <4>2. CASE i # 1
        <5>1. Covers(q[i], 0)
          BY <1>6, <3>6, <4>2 DEF Ledger, Covered
        <5> QED BY <3>6, <3>7, <4>2, <5>1
      <4> QED BY <4>1, <4>2
    <3> QED BY <3>3, <3>9, <3>10
  <2> QED BY <2>1, <2>2
<1> HIDE DEF g, through
<1>12. f \in Room /\ f.main = free.main + h /\ f.slots = free.slots
  BY <1>2, <1>5, <1>11, ReturnedRoom
<1> HIDE DEF f
<1>13. Asked(f, funds, places, req)
  BY <1>1, <1>2, <1>12 DEF Asked
<1>14. Bytewise(free, req, n) /\ Slotwise(free, req, m)
  BY <1>6, <1>10 DEF Ledger
<1>15. Bytewise(f, req, k)
  <2>1. f.main \in Nat /\ f.main + k = free.main + n
    BY <1>2, <1>11, <1>12
  <2> QED BY <1>2, <1>14, <2>1, BytesMoved
<1>16. Slotwise(f, req, m)
  BY <1>12, <1>14 DEF Slotwise
<1>17. Total(HeldOf(Queued))' = k /\ Total(SlotOf(chan))' = m
  BY <1>1, <1>6, <1>10
<1> QED BY <1>2, <1>11, <1>13, <1>15, <1>16, <1>17, SettleLedger

\* At first everything is free.
LEMMA InitLedger ==
  ASSUME Init
  PROVE  LInv
<1>1. /\ req = [s \in Senders |-> Idle] /\ free.main = Budget /\ free.slots = Slots
      /\ funds = <<>> /\ places = <<>> /\ chan = <<>> /\ pending = <<>> /\ closed = FALSE
  BY DEF Init
<1>2. req \in [Senders -> Request] /\ \A s \in Senders : req[s].pc = "idle"
  BY <1>1, IdleType
<1>3. <<>> \in Seq(Senders) /\ Len(<<>>) = 0 /\ <<>> \in Seq(Chunks)
  OBVIOUS
<1>4. Roll(<<>>, req, Holding) /\ Roll(<<>>, req, Ready)
  BY <1>2, <1>3 DEF Roll, Holding, Ready
<1>5. Total(Prices(req, <<>>)) = 0
  BY <1>2, <1>3, PricesType, TotalType
<1>6. Queued = <<>>
  <2>1. <<>> \o <<>> = <<>>
    OBVIOUS
  <2> QED BY <1>1, <2>1 DEF Queued
<1>7. Total(HeldOf(<<>>)) = 0 /\ Total(SlotOf(<<>>)) = 0
  BY <1>3, HeldType, SlotType, TotalType
<1>8. Bytewise(free, req, 0)
  <2>1. free.main + 0 + 0 = Budget
    BY <1>1, BudgetAssumption
  <2> QED BY <1>4, <1>5, <2>1 DEF Bytewise
<1>9. Slotwise(free, req, 0)
  <2>1. free.slots + 0 + 0 = Slots
    BY <1>1, BudgetAssumption
  <2> QED BY <1>3, <1>4, <2>1 DEF Slotwise
<1>10. Covered /\ Pressed
  BY <1>1, <1>3, <1>6 DEF Covered, Pressed
<1> QED BY <1>1, <1>6, <1>7, <1>8, <1>9, <1>10 DEF LInv, Ledger

\* What a client's frame does to the ledger
LEMMA ClientFrameLedger ==
  ASSUME IInv, Ledger, NEW c \in Clients, ClientFrame(c)
  PROVE  Ledger'
<1>1. pasting \in [Clients -> Nat \cup {None}] /\ pastes \in [Clients -> Nat] /\ c \in Senders
  BY DEF IInv, SenderTypes, Senders
<1>2. PICK paste \in Nat \cup {None}, more \in BOOLEAN : Ask(c, 1, paste, more)
  <2>1. CASE Ask(c, 1, None, FALSE)
    BY <2>1
  <2>2. CASE \E more \in BOOLEAN :
               Ask(c, 1, IF pasting[c] = None THEN pastes[c] + 1 ELSE pasting[c], more)
    <3>1. (IF pasting[c] = None THEN pastes[c] + 1 ELSE pasting[c]) \in Nat
      BY <1>1
    <3> QED BY <2>2, <3>1
  <2> QED BY <2>1, <2>2 DEF ClientFrame
<1> QED BY <1>1, <1>2, AskLedger

\* What an RPC caller's does
LEMMA CallerSendsLedger ==
  ASSUME IInv, Ledger, NEW s \in Callers, CallerSends(s)
  PROVE  Ledger'
<1>1. PICK len \in Lengths : Ask(s, len, None, FALSE)
  BY DEF CallerSends
<1>2. len \in Nat /\ len > 0 /\ s \in Senders
  BY LengthsAssumption DEF Senders
<1> QED BY <1>1, <1>2, AskLedger

\* Nothing joins the queue of a task that is gone.
LEMMA ClosedLedger ==
  ASSUME LInv, closed, Next
  PROVE  LInv'
<1>1. chan = <<>> /\ pending = <<>>
  BY DEF LInv
<1> SUFFICES UNCHANGED <<chan, pending, closed>>
  BY <1>1 DEF LInv
<1>2. ASSUME NEW c \in Clients, ClientFrame(c) \/ Detach(c) PROVE UNCHANGED <<chan, pending, closed>>
  BY <1>2 DEF ClientFrame, Ask, Detach
<1>3. ASSUME NEW s \in Callers, CallerSends(s) PROVE UNCHANGED <<chan, pending, closed>>
  BY <1>3 DEF CallerSends, Ask
<1>4. ASSUME NEW s \in Senders, Poll(s) \/ GiveUp(s) \/ SeesClosed(s) \/ Send(s)
      PROVE  UNCHANGED <<chan, pending, closed>>
  BY <1>4 DEF Poll, GiveUp, SeesClosed, Send, queueVars
<1>5. ASSUME NEW lane \in {"main", "control", "urgent"}, TrySend(lane)
      PROVE  UNCHANGED <<chan, pending, closed>>
  BY <1>5 DEF TrySend
<1>6. CASE Recv \/ WriteReply \/ WriteInput \/ Close
  BY <1>6 DEF Recv, WriteReply, WriteInput, Close
<1>7. ASSUME NEW bracketed \in BOOLEAN, NEW query \in BOOLEAN, Output(bracketed, query)
      PROVE  UNCHANGED <<chan, pending, closed>>
  BY <1>7 DEF Output
<1> QED BY <1>2, <1>3, <1>4, <1>5, <1>6, <1>7 DEF Next

\* Every step keeps the ledger.
LEMMA NextLedger ==
  ASSUME IInv, IInv', LInv, [Next]_vars
  PROVE  LInv'
<1>1. CASE UNCHANGED vars
  <2>1. UNCHANGED <<closed, chan, pending, written, req, free, funds, places>>
    BY <1>1 DEF vars, queueVars, roomVars
  <2>2. CASE closed
    BY <2>1, <2>2 DEF LInv
  <2>3. CASE ~closed
    <3>1. SameQueue /\ Ledger
      BY <2>1, <2>3 DEF SameQueue, LInv
    <3>2. Ledger'
      BY <2>1, <3>1, KeepLedger
    <3> QED BY <2>1, <2>3, <3>2 DEF LInv
  <2> QED BY <2>2, <2>3
<1>2. CASE closed /\ Next
  BY <1>2, ClosedLedger
<1>3. CASE ~closed /\ Next
  <2>1. Ledger
    BY <1>3 DEF LInv
  <2> SUFFICES (closed' = TRUE /\ chan' = <<>> /\ pending' = <<>>) \/ (closed' = closed /\ Ledger')
    BY <1>3 DEF LInv
  <2>2. ASSUME NEW c \in Clients, ClientFrame(c) \/ Detach(c) PROVE closed' = closed /\ Ledger'
    <3>1. CASE ClientFrame(c)
      <4>1. closed' = closed
        BY <3>1 DEF ClientFrame, Ask
      <4> QED BY <2>1, <3>1, <4>1, ClientFrameLedger
    <3>2. CASE Detach(c)
      <4>1. closed' = closed
        BY <3>2 DEF Detach
      <4> QED BY <1>3, <2>1, <3>2, <4>1, DetachLedger
    <3> QED BY <2>2, <3>1, <3>2
  <2>3. ASSUME NEW s \in Callers, CallerSends(s) PROVE closed' = closed /\ Ledger'
    <3>1. closed' = closed
      BY <2>3 DEF CallerSends, Ask
    <3> QED BY <2>1, <2>3, <3>1, CallerSendsLedger
  <2>4. ASSUME NEW s \in Senders, Poll(s) \/ GiveUp(s) \/ SeesClosed(s) \/ Send(s)
        PROVE  closed' = closed /\ Ledger'
    <3>1. closed' = closed
      BY <2>4 DEF Poll, GiveUp, SeesClosed, Send
    <3>2. ~SeesClosed(s)
      BY <1>3 DEF SeesClosed
    <3> QED BY <1>3, <2>1, <2>4, <3>1, <3>2, PollLedger, GiveUpLedger, SendLedger
  <2>5. ASSUME NEW lane \in {"main", "control", "urgent"}, TrySend(lane)
        PROVE  closed' = closed /\ Ledger'
    <3>1. closed' = closed
      BY <2>5 DEF TrySend
    <3> QED BY <2>1, <2>5, <3>1, TrySendLedger
  <2>6. CASE Recv
    <3>1. closed' = closed
      BY <2>6 DEF Recv
    <3> QED BY <2>1, <2>6, <3>1, RecvLedger
  <2>7. CASE WriteInput
    <3>1. closed' = closed
      BY <2>7 DEF WriteInput
    <3> QED BY <2>1, <2>7, <3>1, WriteInputLedger
  <2>8. CASE WriteReply
    <3>1. closed' = closed /\ SameQueue /\ UNCHANGED <<req, free, funds, places>>
      BY <2>8 DEF WriteReply, SameQueue, roomVars
    <3> QED BY <2>1, <3>1, KeepLedger
  <2>9. ASSUME NEW bracketed \in BOOLEAN, NEW query \in BOOLEAN, Output(bracketed, query)
        PROVE  closed' = closed /\ Ledger'
    <3>1. closed' = closed /\ SameQueue /\ UNCHANGED <<req, free, funds, places>>
      BY <2>9 DEF Output, SameQueue, roomVars
    <3> QED BY <2>1, <3>1, KeepLedger
  <2>10. CASE Close
    BY <2>10 DEF Close
  <2> QED BY <1>3, <2>2, <2>3, <2>4, <2>5, <2>6, <2>7, <2>8, <2>9, <2>10 DEF Next
<1> QED BY <1>1, <1>2, <1>3

\* The ledger holds of every state.
LEMMA LedgerHolds == Spec => [](IInv /\ LInv)
<1>1. Init => LInv
  BY InitLedger
<1>2. IInv /\ IInv' /\ LInv /\ [Next]_vars => LInv'
  BY NextLedger
<1> QED BY <1>1, <1>2, Invariance, PTL DEF Spec

\* What the chunks that count still have to write, done bytes of the first
\* written, is no more than what they hold.
LEMMA UnwrittenHeld ==
  ASSUME NEW q \in Seq(Chunks), NEW w \in Seq(Nat), NEW done \in Nat, Len(w) = Len(q),
         Len(q) = 0 => done = 0, Len(q) > 0 => done <= w[1],
         \A i \in 1 .. Len(q) : w[i] - (IF i = 1 THEN done ELSE 0) <= Held(q[i])
  PROVE  Total(w) - done <= Total(HeldOf(q))
<1>1. PICK y \in Seq(Nat) : y = HeldOf(q)
  BY HeldType
<1>2. Len(y) = Len(q) /\ \A i \in 1 .. Len(q) : y[i] = Held(q[i])
  BY <1>1, HeldType
<1>3. CASE Len(q) = 0
  <2>1. Total(w) = 0 /\ Total(y) = 0 /\ done = 0
    BY <1>2, <1>3, TotalType
  <2> QED BY <1>1, <2>1
<1>4. CASE Len(q) > 0
  <2> DEFINE u == [w EXCEPT ![1] = w[1] - done]
  <2>1. 1 \in 1 .. Len(w) /\ w[1] \in Nat /\ w[1] - done \in Nat
    BY <1>4
  <2>2. u \in Seq(Nat) /\ Len(u) = Len(w) /\ u[1] = w[1] - done /\ \A i \in 1 .. Len(w) : i # 1 => u[i] = w[i]
    BY <2>1
  <2> HIDE DEF u
  <2>3. Total(u) = (Total(w) - w[1]) + u[1]
    BY <2>1, <2>2, TotalChanged
  <2>4. Total(u) <= Total(y)
    <3>1. ASSUME NEW i \in 1 .. Len(u) PROVE u[i] <= y[i]
      <4>1. i \in 1 .. Len(q) /\ w[i] - (IF i = 1 THEN done ELSE 0) <= y[i] /\ w[i] \in Nat
        BY <1>2, <2>2
      <4>2. CASE i = 1
        BY <2>2, <4>1, <4>2
      <4>3. CASE i # 1
        BY <2>2, <4>1, <4>3
      <4> QED BY <4>2, <4>3
    <3> QED BY <1>2, <2>2, <3>1, TotalLess
  <2>5. PICK t \in Nat, z \in Nat : t = Total(w) /\ z = Total(y)
    BY TotalType
  <2>6. PICK o \in Nat : o = w[1]
    BY <2>1
  <2>7. (t - o) + (o - done) <= z
    BY <2>2, <2>3, <2>4, <2>5, <2>6
  <2>8. t - done <= z
    BY <2>7
  <2> QED BY <1>1, <2>5, <2>8
<1>5. Len(q) \in Nat
  OBVIOUS
<1> QED BY <1>3, <1>4, <1>5

\* No more waits than the budget allows.
LEMMA LedgerBounded ==
  ASSUME IInv, LInv
  PROVE  Bounded
<1> DEFINE done == IF pending # <<>> /\ Counting(pending[1]) THEN written ELSE 0
           w == [i \in DOMAIN Queued |-> IF Counting(Queued[i]) THEN Len(Queued[i].bytes) ELSE 0]
<1> SUFFICES Total(w) - done <= Budget
  BY DEF Bounded, Queued, Counting, TextsOf
<1>1. /\ QueueTypes /\ free \in Room /\ req \in [Senders -> Request] /\ free.main \in Nat
      /\ written \in Nat
  BY DEF IInv, SenderTypes, Lined, Room, QueueTypes
<1>2. PICK q \in Seq(Chunks) : q = Queued
  BY <1>1, QueuedAt
<1>3. DOMAIN q = 1 .. Len(q) /\ Len(q) \in Nat /\ \A i \in 1 .. Len(q) : Len(q[i].bytes) \in Nat
  BY DEF Chunks
<1>4. /\ w \in [1 .. Len(q) -> Nat]
      /\ \A i \in 1 .. Len(q) : w[i] = IF Counting(q[i]) THEN Len(q[i].bytes) ELSE 0
  BY <1>2, <1>3
<1>5. w \in Seq(Nat) /\ Len(w) = Len(q)
  BY <1>3, <1>4, SeqDef
<1>6. PICK P \in Nat, C \in Nat : P = Len(pending) /\ C = Len(chan) /\ Len(q) = P + C
  BY <1>1, <1>2, QueuedAt
<1>7. pending # <<>> => P > 0 /\ q[1] = pending[1] /\ 1 \in 1 .. Len(q)
  <2> SUFFICES ASSUME pending # <<>> PROVE P > 0 /\ q[1] = pending[1] /\ 1 \in 1 .. Len(q)
    OBVIOUS
  <2>1. P > 0
    BY <1>1, <1>6, EmptySeq DEF QueueTypes
  <2>2. 1 \in 1 .. P + C /\ 1 <= P
    BY <1>6, <2>1
  <2> QED BY <1>1, <1>2, <1>6, <2>1, <2>2, QueuedAt
<1>8. done \in Nat
  BY <1>1
<1>9. CASE closed
  <2>1. chan = <<>> /\ pending = <<>>
    BY <1>9 DEF LInv
  <2>2. Len(w) = 0 /\ done = 0
    BY <1>5, <1>6, <2>1
  <2> HIDE DEF w, done
  <2>3. Total(w) = 0
    BY <1>5, <2>2, TotalType
  <2> QED BY <2>2, <2>3, BudgetAssumption
<1>10. CASE ~closed
  <2>1. Ledger /\ Reading
    BY <1>10 DEF LInv, IInv, Streamed
  <2>2. pending = <<>> => written = 0
    BY <2>1 DEF Reading
  <2>3. pending # <<>> => written < Len(pending[1].bytes)
    BY <1>6, <1>7, <2>1 DEF Reading, At
  <2>4. Len(q) = 0 => done = 0
    BY <1>6, <1>7
  <2>5. Len(q) > 0 => done <= w[1]
    <3> SUFFICES ASSUME Len(q) > 0 PROVE done <= w[1]
      OBVIOUS
    <3>1. 1 \in 1 .. Len(q)
      BY <1>3
    <3>2. w[1] = IF Counting(q[1]) THEN Len(q[1].bytes) ELSE 0
      BY <1>4, <3>1
    <3>3. Len(q[1].bytes) \in Nat
      BY <1>3, <3>1
    <3>4. CASE done = 0
      <4> HIDE DEF w, done
      <4> QED BY <3>2, <3>3, <3>4
    <3>5. CASE done # 0
      <4>1. pending # <<>> /\ Counting(pending[1]) /\ done = written
        BY <3>5
      <4> HIDE DEF w, done
      <4> QED BY <1>1, <1>7, <2>3, <3>2, <3>3, <4>1
    <3> QED BY <3>4, <3>5
  <2>6. ASSUME NEW i \in 1 .. Len(q) PROVE w[i] - (IF i = 1 THEN done ELSE 0) <= Held(q[i])
    <3>1. Covers(q[i], IF i = 1 THEN written ELSE 0)
      BY <1>2, <2>1 DEF Ledger, Covered
    <3>2. Held(q[i]) \in Nat
      BY HeldType
    <3>3. w[i] = IF Counting(q[i]) THEN Len(q[i].bytes) ELSE 0
      BY <1>4
    <3>4. CASE ~Counting(q[i])
      <4>1. w[i] = 0
        BY <3>3, <3>4
      <4> HIDE DEF w, done
      <4> QED BY <1>8, <3>2, <4>1
    <3>5. CASE Counting(q[i])
      <4>1. Len(q[i].bytes) - (IF i = 1 THEN written ELSE 0) <= Held(q[i])
        BY <3>1, <3>5 DEF Covers, Held, Counting
      <4>2. i = 1 => done = written
        BY <1>7, <2>2, <3>5
      <4> HIDE DEF w, done
      <4> QED BY <3>3, <3>5, <4>1, <4>2
    <3> QED BY <3>4, <3>5
  <2> HIDE DEF w, done
  <2>7. Total(w) - done <= Total(HeldOf(q))
    BY <1>5, <1>8, <2>4, <2>5, <2>6, UnwrittenHeld
  <2>8. PICK t \in Nat, n \in Nat : t = Total(w) /\ n = Total(HeldOf(q))
    BY <1>1, <1>2, <1>5, QueueTotals, TotalType
  <2>9. n <= Budget
    <3>1. Bytewise(free, req, n)
      BY <1>2, <2>1, <2>8 DEF Ledger
    <3>2. PICK hs : Roll(hs, req, Holding) /\ free.main + Total(Prices(req, hs)) + n = Budget
      BY <3>1 DEF Bytewise
    <3>3. PICK x \in Nat, y \in Nat : x = free.main /\ y = Total(Prices(req, hs))
      BY <1>1, <3>2, RollTotal
    <3>4. x + y + n = Budget
      BY <3>2, <3>3
    <3> QED BY <3>4, BudgetAssumption
  <2>10. t - done <= n
    BY <2>7, <2>8
  <2> QED BY <1>8, <2>8, <2>9, <2>10, BudgetAssumption
<1> QED BY <1>9, <1>10

\* Nobody is left on a roll that nobody is at the place of.
LEMMA RollEmpty ==
  ASSUME NEW r \in [Senders -> Request], NEW hs, NEW pcs, Roll(hs, r, pcs),
         \A s \in Senders : r[s].pc \notin pcs
  PROVE  Len(hs) = 0 /\ Total(Prices(r, hs)) = 0
<1>1. hs \in Seq(Senders)
  BY DEF Roll
<1>2. Len(hs) = 0
  <2> SUFFICES ASSUME Len(hs) # 0 PROVE FALSE
    OBVIOUS
  <2>1. 1 \in 1 .. Len(hs) /\ hs[1] \in Senders
    BY <1>1
  <2> QED BY <2>1 DEF Roll
<1> QED BY <1>1, <1>2, PricesType, TotalType

\* Nobody waits for nothing.
LEMMA LedgerStrandsNobody ==
  ASSUME IInv, LInv
  PROVE  NeverStranded
<1> SUFFICES ASSUME ~closed
             PROVE  /\ funds # <<>> =>
                         /\ Price(funds[1]) > free.main
                         /\ \/ \E s \in Senders : req[s].pc \in Holding
                            \/ \E c \in Range(Queued) : c.from = "main"
                    /\ places # <<>> =>
                         /\ free.slots = 0
                         /\ \/ \E s \in Senders : req[s].pc = "ready"
                            \/ \E i \in DOMAIN chan : chan[i].slot
  BY DEF NeverStranded, Holding, Queued
<1>1. /\ QueueTypes /\ free \in Room /\ req \in [Senders -> Request] /\ free.main \in Nat
      /\ free.slots \in Nat /\ funds \in Seq(Senders) /\ chan \in Seq(Chunks)
  BY DEF IInv, SenderTypes, Lined, Room, QueueTypes
<1>2. Ledger /\ Pressed
  BY DEF LInv, Ledger
<1>3. ASSUME funds # <<>>, \A s \in Senders : req[s].pc \notin Holding,
             \A c \in Range(Queued) : c.from # "main"
      PROVE  FALSE
  <2>1. PICK q \in Seq(Chunks) : q = Queued
    BY <1>1, QueuedAt
  <2>2. ASSUME NEW i \in 1 .. Len(q) PROVE HeldOf(q)[i] = 0
    <3>1. q[i] \in Range(Queued)
      BY <2>1 DEF Range
    <3> QED BY <1>3, <3>1, HeldType DEF Held
  <2>3. Total(HeldOf(q)) = 0
    <3>1. PICK w \in Seq(Nat) : w = HeldOf(q) /\ Len(w) = Len(q)
      BY HeldType
    <3> QED BY <2>2, <3>1, TotalZero
  <2>4. PICK hs : Roll(hs, req, Holding) /\ free.main + Total(Prices(req, hs)) + 0 = Budget
    BY <1>2, <2>1, <2>3 DEF Ledger, Bytewise
  <2>5. Total(Prices(req, hs)) = 0
    BY <1>1, <1>3, <2>4, RollEmpty
  <2>6. free.main = Budget
    BY <1>1, <2>4, <2>5
  <2>7. funds[1] \in Senders /\ req[funds[1]].len \in Nat
    <3>1. funds[1] \in Senders
      BY <1>1, <1>3
    <3> QED BY <1>1, <3>1 DEF Request
  <2>8. Price(funds[1]) \in Nat /\ Price(funds[1]) <= Budget
    BY <2>7, CostType, BudgetAssumption DEF Price
  <2>9. Price(funds[1]) > free.main
    BY <1>2, <1>3 DEF Pressed
  <2> QED BY <2>6, <2>8, <2>9, BudgetAssumption
<1>4. ASSUME places # <<>>, \A s \in Senders : req[s].pc # "ready", \A i \in DOMAIN chan : ~chan[i].slot
      PROVE  FALSE
  <2>1. PICK q \in Seq(Chunks) : q = chan
    BY <1>1
  <2>2. ASSUME NEW i \in 1 .. Len(q) PROVE SlotOf(q)[i] = 0
    <3>1. ~q[i].slot
      BY <1>4, <2>1
    <3> QED BY <3>1, SlotType DEF Slot
  <2>3. Total(SlotOf(q)) = 0
    <3>1. PICK w \in Seq(Nat) : w = SlotOf(q) /\ Len(w) = Len(q)
      BY SlotType
    <3> QED BY <2>2, <3>1, TotalZero
  <2>4. PICK rs : Roll(rs, req, Ready) /\ free.slots + Len(rs) + 0 = Slots
    BY <1>2, <2>1, <2>3 DEF Ledger, Slotwise
  <2>5. \A s \in Senders : req[s].pc \notin Ready
    BY <1>4 DEF Ready
  <2>6. Len(rs) = 0
    BY <1>1, <2>4, <2>5, RollEmpty
  <2>7. free.slots = 0
    BY <1>2, <1>4 DEF Pressed
  <2> QED BY <2>4, <2>6, <2>7, BudgetAssumption
<1> QED BY <1>2, <1>3, <1>4 DEF Pressed

\* The byte budget is neither exceeded nor wasted: what waits for the program
\* never exceeds BUDGET, markers included, but for a chunk larger by itself,
\* and nobody waits in line beside room or for room nobody holds
\* (Budget::cost, PaneWriter::reserve, PaneInput::wrote).
THEOREM BudgetExactHolds == Spec => []BudgetExact
<1>1. IInv /\ LInv => BudgetExact
  BY LedgerBounded, LedgerStrandsNobody DEF BudgetExact
<1> QED BY <1>1, LedgerHolds, PTL

=============================================================================
