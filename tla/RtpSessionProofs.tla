--------------------------- MODULE RtpSessionProofs ---------------------------
(***************************************************************************)
(* Safety of the outbound audio, for packets, buffers and counters of any  *)
(* size.  What drainQueue's loop does is proved by induction over its      *)
(* iterations, in the form "a set of numbers that has 0 and, with a        *)
(* number, the next one has them all".                                     *)
(***************************************************************************)
EXTENDS RtpSession, WellFoundedInduction, TLAPS

-----------------------------------------------------------------------------
(* Induction.                                                              *)

Below == {p \in Nat \X Nat : p[1] < p[2]}

LEMMA BelowIsWellFounded == IsWellFoundedOn(Below, Nat)
BY NatLessThanWellFounded DEF OpToRel, Below

\* A set of numbers with 0 and the successor of each of them is all of Nat.
LEMMA Induction ==
  ASSUME NEW T, 0 \in T, \A n \in Nat : n \in T => n + 1 \in T
  PROVE  \A n \in Nat : n \in T
<1>. DEFINE rest == Nat \ T
<1>1. SUFFICES ASSUME rest # {} PROVE FALSE
  OBVIOUS
<1>2. \E x \in rest : \A y \in rest : ~ (<<y, x>> \in Below)
  <2>1. rest \subseteq Nat
    OBVIOUS
  <2>. HIDE DEF rest
  <2>. QED  BY <1>1, <2>1, BelowIsWellFounded, WFMin
<1>3. PICK x \in rest : \A y \in rest : ~ (<<y, x>> \in Below)
  BY <1>2
<1>4. x - 1 \in rest /\ <<x - 1, x>> \in Below
  BY DEF Below
<1>. QED  BY <1>3, <1>4

\* A function of a set to itself can be applied again and again.
Iterates(S, step, start, N) ==
  \E f \in [0..N -> S] : f[0] = start /\ \A n \in 1..N : f[n] = step[f[n - 1]]

LEMMA Iteration ==
  ASSUME NEW S, NEW step \in [S -> S], NEW start \in S, NEW N \in Nat
  PROVE  Iterates(S, step, start, N)
<1>. DEFINE T == {n \in Nat : Iterates(S, step, start, n)}
<1>1. 0 \in T
  <2> DEFINE g == [k \in 0..0 |-> start]
  <2>1. g \in [0..0 -> S] /\ g[0] = start
    OBVIOUS
  <2>2. \A k \in 1..0 : g[k] = step[g[k - 1]]
    OBVIOUS
  <2>. HIDE DEF g
  <2>3. Iterates(S, step, start, 0)
    BY <2>1, <2>2 DEF Iterates
  <2>. QED  BY <2>3
<1>2. ASSUME NEW n \in Nat, n \in T
      PROVE  n + 1 \in T
  <2>1. PICK f \in [0..n -> S] : f[0] = start /\ \A k \in 1..n : f[k] = step[f[k - 1]]
    BY <1>2 DEF Iterates
  <2> DEFINE g == [k \in 0..(n + 1) |-> IF k \in 0..n THEN f[k] ELSE step[f[n]]]
  <2>2. g \in [0..(n + 1) -> S]
    OBVIOUS
  <2>3. g[0] = start
    BY <2>1
  <2>4. ASSUME NEW k \in 1..(n + 1)
        PROVE  g[k] = step[g[k - 1]]
    <3>1. k - 1 \in 0..n /\ g[k - 1] = f[k - 1]
      OBVIOUS
    <3>2. CASE k \in 1..n
      BY <2>1, <3>1, <3>2
    <3>3. CASE k = n + 1
      BY <3>1, <3>3
    <3>. QED  BY <3>2, <3>3
  <2>. HIDE DEF g
  <2>5. Iterates(S, step, start, n + 1)
    BY <2>2, <2>3, <2>4 DEF Iterates
  <2>. QED  BY <2>5
<1>3. \A n \in Nat : n \in T
  <2>. HIDE DEF T
  <2>. QED  BY <1>1, <1>2, Induction
<1>. QED  BY <1>3

-----------------------------------------------------------------------------
(* The queue.                                                              *)

Buffer == [first : Nat, len : Nat]

LoopState == [out : Seq(Nat), remaining : 0..PacketBytes, rest : Seq(Buffer)]

\* The number of the first byte of a queue that ends with byte `last'.
FirstOf(queue, last) == IF queue = <<>> THEN last + 1 ELSE queue[1].first

Gapless(queue, last) ==
  \A i \in 1..Len(queue) :
    queue[i].first + queue[i].len = IF i = Len(queue) THEN last + 1 ELSE queue[i + 1].first

\* All of a queue lies after byte `low' and none of it after byte `last'.
Within(queue, low, last) ==
  \A i \in 1..Len(queue) : low < queue[i].first /\ queue[i].first + queue[i].len <= last + 1

\* What holds after every iteration of the loop: the bytes `oldest', oldest + 1,
\* ... have been taken, and the queue goes on with the byte after them.
Drained(state, oldest, low, last) ==
  /\ state \in LoopState
  /\ Gapless(state.rest, last)
  /\ Within(state.rest, low, last)
  /\ Len(state.out) + state.remaining = PacketBytes
  /\ \A i \in 1..Len(state.out) : state.out[i] = oldest + i - 1
  /\ FirstOf(state.rest, last) = oldest + Len(state.out)

\* Taking the first buffer of a queue.
LEMMA TailIsGapless ==
  ASSUME NEW last \in Nat, NEW low \in Nat, NEW queue \in Seq(Buffer), queue # <<>>,
         Gapless(queue, last), Within(queue, low, last)
  PROVE  /\ Head(queue) \in Buffer /\ Tail(queue) \in Seq(Buffer)
         /\ Len(Tail(queue)) = Len(queue) - 1
         /\ Gapless(Tail(queue), last) /\ Within(Tail(queue), low, last)
         /\ FirstOf(Tail(queue), last) = Head(queue).first + Head(queue).len
         /\ FirstOf(queue, last) = Head(queue).first
<1>. DEFINE rest == Tail(queue)
<1>1. Len(queue) \in Nat /\ 1 <= Len(queue)
  OBVIOUS
<1>2. Head(queue) = queue[1] /\ queue[1] \in Buffer
  OBVIOUS
<1>3. /\ rest \in Seq(Buffer) /\ Len(rest) = Len(queue) - 1
      /\ \A i \in 1..(Len(queue) - 1) : rest[i] = queue[i + 1]
  OBVIOUS
<1>. HIDE DEF rest
<1>4. rest = <<>> <=> Len(queue) = 1
  <2>1. rest = <<>> <=> Len(rest) = 0
    BY <1>3
  <2>. QED  BY <1>1, <1>3, <2>1
<1>5. \A i \in 1..Len(rest) : i + 1 \in 1..Len(queue) /\ rest[i] = queue[i + 1]
  BY <1>1, <1>3
<1>6. Gapless(rest, last)
  <2>1. ASSUME NEW i \in 1..Len(rest)
        PROVE  rest[i].first + rest[i].len
                 = IF i = Len(rest) THEN last + 1 ELSE rest[i + 1].first
    <3>1. queue[i + 1].first + queue[i + 1].len
            = IF i + 1 = Len(queue) THEN last + 1 ELSE queue[(i + 1) + 1].first
      BY <1>5 DEF Gapless
    <3>2. i # Len(rest) => i + 1 \in 1..Len(rest)
      BY <1>1, <1>3
    <3>3. i = Len(rest) <=> i + 1 = Len(queue)
      BY <1>1, <1>3
    <3>. QED  BY <1>5, <3>1, <3>2, <3>3
  <2>. QED  BY <2>1 DEF Gapless
<1>7. Within(rest, low, last)
  BY <1>5 DEF Within
<1>8. FirstOf(rest, last) = queue[1].first + queue[1].len
  <2>1. 1 \in 1..Len(queue)
    BY <1>1
  <2>2. queue[1].first + queue[1].len
          = IF 1 = Len(queue) THEN last + 1 ELSE queue[1 + 1].first
    BY <2>1 DEF Gapless
  <2>3. CASE Len(queue) = 1
    BY <1>4, <2>2, <2>3 DEF FirstOf
  <2>4. CASE Len(queue) # 1
    <3>1. 1 \in 1..Len(rest)
      BY <1>1, <1>3, <2>4
    <3>2. rest # <<>> /\ rest[1] = queue[1 + 1]
      BY <1>4, <1>5, <2>4, <3>1
    <3>. QED  BY <2>2, <2>4, <3>2 DEF FirstOf
  <2>. QED  BY <2>3, <2>4
<1>. QED  BY <1>2, <1>3, <1>6, <1>7, <1>8 DEF FirstOf, rest

\* Putting the rest of a split buffer back in front of the others.
LEMMA BackIsGapless ==
  ASSUME NEW last \in Nat, NEW low \in Nat, NEW queue \in Seq(Buffer), queue # <<>>,
         Gapless(queue, last), Within(queue, low, last),
         NEW n \in Nat, n <= Head(queue).len
  PROVE  LET split == <<Back(Head(queue), n)>> \o Tail(queue)
         IN  /\ split \in Seq(Buffer) /\ Len(split) = Len(queue)
             /\ Gapless(split, last) /\ Within(split, low, last)
             /\ FirstOf(split, last) = Head(queue).first + n
<1>. DEFINE back == Back(Head(queue), n)
            rest == Tail(queue)
            split == <<back>> \o rest
<1>1. /\ Len(queue) \in Nat /\ 1 <= Len(queue) /\ Head(queue) = queue[1] /\ queue[1] \in Buffer
      /\ rest \in Seq(Buffer) /\ Len(rest) = Len(queue) - 1
      /\ \A i \in 1..(Len(queue) - 1) : rest[i] = queue[i + 1]
  OBVIOUS
<1>2. /\ back \in Buffer
      /\ back.first = queue[1].first + n
      /\ back.first + back.len = queue[1].first + queue[1].len
  BY <1>1 DEF Back, Chunk, Buffer
<1>. HIDE DEF back, rest
<1>3. /\ split \in Seq(Buffer) /\ Len(split) = Len(queue)
      /\ split[1] = back
      /\ \A i \in 2..Len(queue) : split[i] = queue[i]
  <2>1. <<back>> \in Seq(Buffer) /\ Len(<<back>>) = 1 /\ <<back>>[1] = back
    BY <1>2
  <2>2. split \in Seq(Buffer) /\ Len(split) = Len(queue)
    BY <1>1, <2>1
  <2>3. split[1] = back
    BY <1>1, <2>1
  <2>4. ASSUME NEW i \in 2..Len(queue)
        PROVE  split[i] = queue[i]
    <3>1. split[i] = rest[i - 1]
      BY <1>1, <2>1
    <3>. QED  BY <1>1, <3>1
  <2>. QED  BY <2>2, <2>3, <2>4
<1>. HIDE DEF split
<1>4. Gapless(split, last)
  <2>1. ASSUME NEW i \in 1..Len(queue)
        PROVE  split[i].first + split[i].len = queue[i].first + queue[i].len
    BY <1>2, <1>3
  <2>2. \A i \in 1..Len(queue) : i # Len(queue) => split[i + 1] = queue[i + 1]
    BY <1>1, <1>3
  <2>. QED  BY <1>3, <2>1, <2>2 DEF Gapless
<1>5. Within(split, low, last)
  <2>1. low < back.first /\ back.first + back.len <= last + 1
    BY <1>1, <1>2 DEF Within, Buffer
  <2>2. \A i \in 2..Len(queue) :
          low < split[i].first /\ split[i].first + split[i].len <= last + 1
    BY <1>3 DEF Within
  <2>3. \A i \in 1..Len(queue) : i = 1 \/ i \in 2..Len(queue)
    BY <1>1
  <2>. QED  BY <1>3, <2>1, <2>2, <2>3 DEF Within
<1>6. FirstOf(split, last) = queue[1].first + n
  BY <1>1, <1>2, <1>3 DEF FirstOf
<1>. QED  BY <1>1, <1>3, <1>4, <1>5, <1>6 DEF split, back, rest

-----------------------------------------------------------------------------
(* drainQueue.                                                             *)

\* The bytes of a buffer continue the bytes that were taken before.
LEMMA TakeBytes ==
  ASSUME NEW oldest \in Nat, NEW out \in Seq(Nat), NEW chunk \in Buffer,
         \A i \in 1..Len(out) : out[i] = oldest + i - 1,
         chunk.first = oldest + Len(out)
  PROVE  LET longer == out \o BytesOf(chunk)
         IN  /\ longer \in Seq(Nat) /\ Len(longer) = Len(out) + chunk.len
             /\ \A i \in 1..Len(longer) : longer[i] = oldest + i - 1
<1>. DEFINE bytes == BytesOf(chunk)
            longer == out \o bytes
<1>1. chunk.first \in Nat /\ chunk.len \in Nat
  BY DEF Buffer
<1>2. /\ bytes \in Seq(Nat) /\ Len(bytes) = chunk.len
      /\ \A i \in 1..chunk.len : bytes[i] = chunk.first + i - 1
  <2>1. \A i \in 1..chunk.len : chunk.first + i - 1 \in Nat
    BY <1>1
  <2>2. bytes = [i \in 1..chunk.len |-> chunk.first + i - 1]
    BY DEF BytesOf
  <2>3. bytes \in [1..chunk.len -> Nat]
    BY <2>1, <2>2
  <2>4. \A i \in 1..chunk.len : bytes[i] = chunk.first + i - 1
    BY <2>2
  <2>. HIDE DEF bytes
  <2>. QED  BY <1>1, <2>3, <2>4
<1>. HIDE DEF bytes
<1>3. longer \in Seq(Nat) /\ Len(longer) = Len(out) + chunk.len
  BY <1>2
<1>4. \A i \in 1..Len(out) : longer[i] = out[i]
  BY <1>2
<1>5. \A i \in (Len(out) + 1)..(Len(out) + chunk.len) : longer[i] = bytes[i - Len(out)]
  BY <1>1, <1>2
<1>. HIDE DEF longer
<1>6. ASSUME NEW i \in 1..Len(longer)
      PROVE  longer[i] = oldest + i - 1
  <2>0. Len(out) \in Nat
    OBVIOUS
  <2>1. CASE i \in 1..Len(out)
    BY <1>4, <2>1
  <2>2. CASE i \notin 1..Len(out)
    <3>1. /\ i \in (Len(out) + 1)..(Len(out) + chunk.len)
          /\ i - Len(out) \in 1..chunk.len
      BY <1>1, <1>3, <2>0, <2>2
    <3>2. longer[i] = chunk.first + (i - Len(out)) - 1
      BY <1>2, <1>5, <3>1
    <3>. QED  BY <1>1, <2>0, <3>2
  <2>. QED  BY <2>1, <2>2
<1>. QED  BY <1>3, <1>6 DEF longer, bytes

\* One iteration: what was taken stays a run of bytes and what is left goes on
\* after it, and unless the loop is over, the queue gets shorter.
LEMMA IterationKeeps ==
  ASSUME NEW oldest \in Nat, NEW low \in Nat, NEW last \in Nat, NEW state,
         Drained(state, oldest, low, last)
  PROVE  LET next == DrainStep(state)
         IN  /\ Drained(next, oldest, low, last)
             /\ \/ next.remaining = 0
                \/ next.rest = <<>>
                \/ Len(next.rest) = Len(state.rest) - 1
<1>. DEFINE next == DrainStep(state)
            chunk == Head(state.rest)
            front == Front(chunk, state.remaining)
<1>1. /\ state.out \in Seq(Nat) /\ state.remaining \in 0..PacketBytes
      /\ state.rest \in Seq(Buffer)
      /\ Gapless(state.rest, last) /\ Within(state.rest, low, last)
      /\ Len(state.out) + state.remaining = PacketBytes
      /\ \A i \in 1..Len(state.out) : state.out[i] = oldest + i - 1
      /\ FirstOf(state.rest, last) = oldest + Len(state.out)
  BY DEF Drained, LoopState
<1>2. PacketBytes \in Nat /\ Len(state.out) \in Nat /\ state.remaining \in Nat
  BY <1>1, RtpAssumption
<1>3. CASE state.remaining = 0 \/ state.rest = <<>>
  <2>1. next = state
    BY <1>3 DEF DrainStep
  <2>. QED  BY <1>3, <2>1
<1>4. CASE state.remaining # 0 /\ state.rest # <<>> /\ chunk.len <= state.remaining
  <2>1. next = [out |-> state.out \o BytesOf(chunk), remaining |-> state.remaining - chunk.len,
                rest |-> Tail(state.rest)]
    BY <1>4 DEF DrainStep
  <2>2. /\ chunk \in Buffer /\ Tail(state.rest) \in Seq(Buffer)
        /\ Len(Tail(state.rest)) = Len(state.rest) - 1
        /\ Gapless(Tail(state.rest), last) /\ Within(Tail(state.rest), low, last)
        /\ FirstOf(Tail(state.rest), last) = chunk.first + chunk.len
        /\ FirstOf(state.rest, last) = chunk.first
    BY <1>1, <1>4, TailIsGapless
  <2>. HIDE DEF chunk
  <2>3. chunk.len \in Nat /\ chunk.first = oldest + Len(state.out)
    BY <1>1, <2>2 DEF Buffer
  <2> DEFINE longer == state.out \o BytesOf(chunk)
  <2>4. /\ longer \in Seq(Nat) /\ Len(longer) = Len(state.out) + chunk.len
        /\ \A i \in 1..Len(longer) : longer[i] = oldest + i - 1
    BY <1>1, <2>2, <2>3, TakeBytes
  <2>. HIDE DEF longer, next
  <2>5. /\ next.out = longer /\ next.remaining = state.remaining - chunk.len
        /\ next.rest = Tail(state.rest)
    BY <2>1 DEF longer
  <2>6. state.remaining - chunk.len \in 0..PacketBytes
    BY <1>1, <1>2, <1>4, <2>3
  <2>7. next \in LoopState
    BY <2>1, <2>2, <2>4, <2>6 DEF LoopState, longer
  <2>8. Len(next.out) + next.remaining = PacketBytes
    BY <1>1, <1>2, <2>3, <2>4, <2>5
  <2>9. FirstOf(next.rest, last) = oldest + Len(next.out)
    <3>1. Len(longer) = Len(state.out) + chunk.len /\ FirstOf(Tail(state.rest), last) = chunk.first + chunk.len
      BY <2>2, <2>4
    <3>2. chunk.first + chunk.len = oldest + (Len(state.out) + chunk.len)
      BY <1>2, <2>3
    <3>. QED  BY <2>5, <3>1, <3>2
  <2>. QED  BY <2>2, <2>4, <2>5, <2>7, <2>8, <2>9 DEF Drained, next
<1>5. CASE state.remaining # 0 /\ state.rest # <<>> /\ ~(chunk.len <= state.remaining)
  <2> DEFINE split == <<Back(chunk, state.remaining)>> \o Tail(state.rest)
             longer == state.out \o BytesOf(front)
  <2>1. next = [out |-> longer, remaining |-> 0, rest |-> split]
    BY <1>5 DEF DrainStep
  <2>2. chunk \in Buffer /\ FirstOf(state.rest, last) = chunk.first
    BY <1>1, <1>5, TailIsGapless
  <2>3. chunk.len \in Nat /\ chunk.first \in Nat /\ state.remaining <= chunk.len
    BY <1>2, <1>5, <2>2 DEF Buffer
  <2>4. /\ split \in Seq(Buffer)
        /\ Gapless(split, last) /\ Within(split, low, last)
        /\ FirstOf(split, last) = chunk.first + state.remaining
    BY <1>1, <1>2, <1>5, <2>3, BackIsGapless
  <2>5. /\ front \in Buffer /\ front.first = chunk.first /\ front.len = state.remaining
        /\ chunk.first = oldest + Len(state.out)
    BY <1>1, <1>2, <2>2, <2>3 DEF Front, Chunk, Buffer
  <2>. HIDE DEF chunk, front, split
  <2>6. /\ longer \in Seq(Nat) /\ Len(longer) = Len(state.out) + state.remaining
        /\ \A i \in 1..Len(longer) : longer[i] = oldest + i - 1
    <3>1. front.first = oldest + Len(state.out)
      BY <2>5
    <3>2. /\ longer \in Seq(Nat) /\ Len(longer) = Len(state.out) + front.len
          /\ \A i \in 1..Len(longer) : longer[i] = oldest + i - 1
      BY <1>1, <2>5, <3>1, TakeBytes
    <3>. QED  BY <2>5, <3>2
  <2>. HIDE DEF longer, next
  <2>7. next.out = longer /\ next.remaining = 0 /\ next.rest = split
    BY <2>1
  <2>8. next \in LoopState
    BY <1>2, <2>1, <2>4, <2>6 DEF LoopState
  <2>9. Len(next.out) + next.remaining = PacketBytes
    BY <1>1, <1>2, <2>6, <2>7
  <2>10. FirstOf(next.rest, last) = oldest + Len(next.out)
    <3>1. /\ Len(longer) = Len(state.out) + state.remaining
          /\ FirstOf(split, last) = chunk.first + state.remaining
      BY <2>4, <2>6
    <3>2. chunk.first + state.remaining = oldest + (Len(state.out) + state.remaining)
      BY <1>2, <2>5
    <3>. QED  BY <2>7, <3>1, <3>2
  <2>. QED  BY <2>4, <2>6, <2>7, <2>8, <2>9, <2>10 DEF Drained, next
<1>. QED  BY <1>3, <1>4, <1>5

\* The loop, for a queue of any length: it stops with a full packet or with an
\* empty queue, and nothing is lost, repeated or reordered.
LEMMA DrainKeeps ==
  ASSUME NEW oldest \in Nat, NEW low \in Nat, NEW last \in Nat, NEW queue \in Seq(Buffer),
         Gapless(queue, last), Within(queue, low, last), FirstOf(queue, last) = oldest
  PROVE  /\ Drained(Drain(queue), oldest, low, last)
         /\ Drain(queue).remaining = 0 \/ Drain(queue).rest = <<>>
<1>. DEFINE start == [out |-> <<>>, remaining |-> PacketBytes, rest |-> queue]
            Good == {s \in LoopState : Drained(s, oldest, low, last)}
            step == [s \in Good |-> DrainStep(s)]
            N == Len(queue)
            Loop(f) == f = [n \in 0..N |-> IF n = 0 THEN start ELSE DrainStep(f[n - 1])]
<1>0. N \in Nat /\ PacketBytes \in Nat
  BY RtpAssumption
<1>1. Drained(start, oldest, low, last)
  <2>1. start \in LoopState
    BY <1>0 DEF LoopState
  <2>. QED  BY <1>0, <2>1 DEF Drained
<1>2. start \in Good /\ step \in [Good -> Good]
  <2>1. start \in Good
    BY <1>1 DEF Drained
  <2>2. ASSUME NEW s \in Good PROVE DrainStep(s) \in Good
    <3>1. Drained(s, oldest, low, last)
      BY <2>2
    <3>2. Drained(DrainStep(s), oldest, low, last)
      BY <3>1, IterationKeeps
    <3>. QED  BY <3>2 DEF Drained
  <2>. HIDE DEF Good, start
  <2>. QED  BY <2>1, <2>2
<1>3. PICK f \in [0..N -> Good] : f[0] = start /\ \A n \in 1..N : f[n] = step[f[n - 1]]
  <2>1. N \in Nat
    BY <1>0
  <2>. HIDE DEF start, step, Good, N
  <2>2. Iterates(Good, step, start, N)
    BY <1>2, <2>1, Iteration
  <2>. QED  BY <2>2 DEF Iterates
<1>4. \A n \in 1..N : f[n - 1] \in Good /\ f[n] = DrainStep(f[n - 1])
  <2>1. \A n \in 1..N : n - 1 \in 0..N
    BY <1>0
  <2>2. \A n \in 1..N : f[n - 1] \in Good
    BY <1>3, <2>1
  <2>. HIDE DEF Good, N, start
  <2>. QED  BY <1>3, <2>2
<1>5. Loop(f)
  <2>. HIDE DEF Good, N, start
  <2>1. ASSUME NEW n \in 0..N
        PROVE  f[n] = IF n = 0 THEN start ELSE DrainStep(f[n - 1])
    <3>1. CASE n = 0
      BY <1>3, <3>1
    <3>2. CASE n # 0
      <4>1. n \in 1..N
        BY <1>0, <3>2
      <4>. QED  BY <1>4, <3>2, <4>1
    <3>. QED  BY <3>1, <3>2
  <2>. QED  BY <1>3, <2>1
<1>6. PICK g : Loop(g) /\ Drain(queue) = g[N]
  <2>1. \E g : Loop(g) /\ Drain(queue) = g[N]
    BY <1>5, Zenon DEF Drain
  <2>. QED  BY <2>1
<1>7. /\ g[0] = start
      /\ \A n \in 0..N : n + 1 \in 0..N => g[n + 1] = DrainStep(g[n])
  <2>. HIDE DEF start
  <2>. QED  BY <1>0, <1>6
<1>. DEFINE Shorter(s, n) == s.remaining = 0 \/ Len(s.rest) <= N - n
            T == {n \in Nat : n <= N => Drained(g[n], oldest, low, last) /\ Shorter(g[n], n)}
<1>8. 0 \in T
  <2>1. Shorter(start, 0)
    BY <1>0
  <2>. HIDE DEF start, Shorter, N
  <2>. QED  BY <1>1, <1>7, <2>1
<1>9. ASSUME NEW n \in Nat, n \in T
      PROVE  n + 1 \in T
  <2>1. CASE ~(n + 1 <= N)
    BY <2>1
  <2>2. CASE n + 1 <= N
    <3> DEFINE s == g[n]
               next == DrainStep(s)
    <3>1. g[n + 1] = next
      <4>1. n \in 0..N /\ n + 1 \in 0..N
        BY <1>0, <2>2
      <4>. QED  BY <1>7, <4>1
    <3>2. Drained(s, oldest, low, last) /\ Shorter(s, n)
      BY <1>0, <1>9, <2>2
    <3>. HIDE DEF s
    <3>3. /\ Drained(next, oldest, low, last)
          /\ next.remaining = 0 \/ next.rest = <<>> \/ Len(next.rest) = Len(s.rest) - 1
      BY <3>2, IterationKeeps
    <3>4. s.remaining = 0 => next = s
      BY DEF DrainStep
    <3>5. Len(s.rest) \in Nat /\ next.rest \in Seq(Buffer)
      BY <3>2, <3>3 DEF Drained, LoopState
    <3>. HIDE DEF next
    <3>6. Shorter(next, n + 1)
      <4>1. CASE s.remaining = 0
        BY <3>4, <4>1
      <4>2. CASE next.remaining = 0
        BY <4>2
      <4>3. CASE next.rest = <<>>
        BY <1>0, <2>2, <4>3
      <4>4. CASE s.remaining # 0 /\ Len(next.rest) = Len(s.rest) - 1
        BY <1>0, <3>2, <3>5, <4>4
      <4>. QED  BY <3>3, <4>1, <4>2, <4>3, <4>4
    <3>. HIDE DEF Shorter
    <3>7. n + 1 \in Nat
      OBVIOUS
    <3>. QED  BY <3>1, <3>3, <3>6, <3>7
  <2>. QED  BY <2>1, <2>2
<1>10. N \in T
  <2>1. \A n \in Nat : n \in T
    <3>. HIDE DEF T
    <3>. QED  BY <1>8, <1>9, Induction
  <2>. QED  BY <1>0, <2>1
<1>11. Drained(g[N], oldest, low, last) /\ Shorter(g[N], N)
  BY <1>0, <1>10
<1>12. g[N].remaining = 0 \/ g[N].rest = <<>>
  <2>1. g[N].rest \in Seq(Buffer)
    BY <1>11 DEF Drained, LoopState
  <2>2. Len(g[N].rest) <= 0 => g[N].rest = <<>>
    BY <2>1
  <2>. QED  BY <1>0, <1>11, <2>2
<1>. QED  BY <1>6, <1>11, <1>12

-----------------------------------------------------------------------------
(* The invariant.                                                          *)

\* QueueIsContiguous, and that everything queued lies between the last barge-in
\* and the newest byte.
IInv ==
  /\ TypeOK
  /\ outboundQueue \in Seq(Buffer)
  /\ bargeIn <= accepted
  /\ Gapless(outboundQueue, accepted)
  /\ Within(outboundQueue, bargeIn, accepted)
  /\ muted => outboundQueue = <<>>

LEMMA EmptyQueue ==
  ASSUME NEW low, NEW last
  PROVE  <<>> \in Seq(Buffer) /\ Gapless(<<>>, last) /\ Within(<<>>, low, last)
BY DEF Gapless, Within

LEMMA BuffersOf ==
  ASSUME NEW queue \in Seq(Buffer)
  PROVE  \A i \in DOMAIN queue : queue[i] \in [first : Nat, len : Nat]
<1>1. DOMAIN queue = 1..Len(queue) /\ \A i \in 1..Len(queue) : queue[i] \in Buffer
  OBVIOUS
<1>. QED  BY <1>1 DEF Buffer

LEMMA InitIInv == Init => IInv
<1>. SUFFICES ASSUME Init PROVE IInv
  OBVIOUS
<1>1. TypeOK
  <2>1. \A i \in DOMAIN outboundQueue : outboundQueue[i] \in [first : Nat, len : Nat]
    BY EmptyQueue, BuffersOf DEF Init
  <2>2. sequenceNumber \in 0..(SeqModulus - 1) /\ timestamp \in 0..(TsModulus - 1)
    BY RtpAssumption DEF Init
  <2>3. accepted \in 0..MaxBytes /\ bargeIn \in 0..MaxBytes
    BY RtpAssumption DEF Init
  <2>4. phase \in {"new", "running", "stopped"} /\ remoteSet \in BOOLEAN /\ muted \in BOOLEAN
    BY DEF Init
  <2>. QED  BY <2>1, <2>2, <2>3, <2>4 DEF TypeOK
<1>. QED  BY <1>1, EmptyQueue DEF Init, IInv

\* A buffer goes to the end of the queue.
LEMMA SendAudioStep ==
  ASSUME IInv, NEW n \in ChunkSizes, SendAudio(n)
  PROVE  IInv'
<1>. DEFINE chunk == Chunk(accepted + 1, n)
<1>1. /\ n \in Nat /\ accepted \in Nat /\ bargeIn \in Nat /\ MaxBytes \in Nat
      /\ accepted + n <= MaxBytes /\ bargeIn <= accepted
      /\ outboundQueue \in Seq(Buffer)
      /\ UNCHANGED <<phase, remoteSet, muted, sequenceNumber, timestamp, bargeIn, packet>>
  BY RtpAssumption DEF IInv, TypeOK, SendAudio, headerVars
<1>2. CASE Accepts
  <2>1. /\ outboundQueue' = Append(outboundQueue, chunk) /\ accepted' = accepted + n
        /\ ~muted
    BY <1>2 DEF SendAudio, Accepts
  <2>2. chunk \in Buffer /\ chunk.first = accepted + 1 /\ chunk.len = n
    BY <1>1 DEF Chunk, Buffer
  <2>. HIDE DEF chunk
  <2>3. Len(outboundQueue) \in Nat
    BY <1>1
  <2>4. /\ outboundQueue' \in Seq(Buffer)
        /\ Len(outboundQueue') = Len(outboundQueue) + 1
        /\ \A i \in 1..Len(outboundQueue) : outboundQueue'[i] = outboundQueue[i]
        /\ outboundQueue'[Len(outboundQueue) + 1] = chunk
    BY <1>1, <2>1, <2>2
  <2>5. Gapless(outboundQueue', accepted')
    <3>1. ASSUME NEW i \in 1..Len(outboundQueue')
          PROVE  outboundQueue'[i].first + outboundQueue'[i].len
                   = IF i = Len(outboundQueue') THEN accepted' + 1 ELSE outboundQueue'[i + 1].first
      <4>1. CASE i = Len(outboundQueue')
        <5>1. outboundQueue'[i] = chunk
          BY <2>4, <4>1
        <5>2. chunk.first + chunk.len = accepted' + 1
          BY <1>1, <2>1, <2>2
        <5>. QED  BY <4>1, <5>1, <5>2
      <4>2. CASE i = Len(outboundQueue)
        <5>1. outboundQueue[i].first + outboundQueue[i].len = accepted + 1
          BY <2>3, <2>4, <4>2 DEF IInv, Gapless
        <5>2. outboundQueue'[i] = outboundQueue[i] /\ outboundQueue'[i + 1] = chunk
          BY <2>3, <2>4, <4>2
        <5>3. i # Len(outboundQueue')
          BY <2>3, <2>4, <4>2
        <5>. QED  BY <2>2, <5>1, <5>2, <5>3
      <4>3. CASE i \in 1..(Len(outboundQueue) - 1)
        <5>1. outboundQueue[i].first + outboundQueue[i].len = outboundQueue[i + 1].first
          BY <2>3, <4>3 DEF IInv, Gapless
        <5>2. i \in 1..Len(outboundQueue) /\ i + 1 \in 1..Len(outboundQueue)
          BY <2>3, <4>3
        <5>3. i # Len(outboundQueue')
          BY <2>3, <2>4, <4>3
        <5>. QED  BY <2>4, <5>1, <5>2, <5>3
      <4>4. i = Len(outboundQueue') \/ i = Len(outboundQueue) \/ i \in 1..(Len(outboundQueue) - 1)
        BY <2>3, <2>4
      <4>. QED  BY <4>1, <4>2, <4>3, <4>4
    <3>. QED  BY <3>1 DEF Gapless
  <2>6. Within(outboundQueue', bargeIn', accepted')
    <3>1. ASSUME NEW i \in 1..Len(outboundQueue')
          PROVE  /\ bargeIn < outboundQueue'[i].first
                 /\ outboundQueue'[i].first + outboundQueue'[i].len <= accepted' + 1
      <4>1. CASE i = Len(outboundQueue')
        <5>1. outboundQueue'[i] = chunk
          BY <2>4, <4>1
        <5>. QED  BY <1>1, <2>1, <2>2, <5>1
      <4>2. CASE i \in 1..Len(outboundQueue)
        <5>1. /\ outboundQueue'[i] = outboundQueue[i] /\ outboundQueue[i] \in Buffer
              /\ bargeIn < outboundQueue[i].first
              /\ outboundQueue[i].first + outboundQueue[i].len <= accepted + 1
          BY <1>1, <2>4, <4>2 DEF IInv, Within
        <5>2. outboundQueue[i].first \in Nat /\ outboundQueue[i].len \in Nat
          BY <5>1 DEF Buffer
        <5>. QED  BY <1>1, <2>1, <5>1, <5>2
      <4>. QED  BY <2>3, <2>4, <4>1, <4>2
    <3>. QED  BY <1>1, <3>1 DEF Within
  <2>7. TypeOK'
    <3>1. \A i \in DOMAIN outboundQueue' : outboundQueue'[i] \in [first : Nat, len : Nat]
      BY <2>4, BuffersOf
    <3>2. accepted' \in 0..MaxBytes
      BY <1>1, <2>1
    <3>. QED  BY <1>1, <3>1, <3>2 DEF IInv, TypeOK
  <2>8. bargeIn' <= accepted'
    BY <1>1, <2>1
  <2>. QED  BY <1>1, <2>1, <2>4, <2>5, <2>6, <2>7, <2>8 DEF IInv
<1>3. CASE ~Accepts
  <2>1. outboundQueue' = outboundQueue /\ accepted' = accepted
    BY <1>3 DEF SendAudio, queueVars
  <2>. QED  BY <1>1, <2>1 DEF IInv, TypeOK
<1>. QED  BY <1>2, <1>3

\* What one packet takes from a queue that is not empty.
LEMMA PacketStep ==
  ASSUME IInv, SendPacket, outboundQueue # <<>>
  PROVE  LET drained == Drain(outboundQueue)
         IN  /\ Drained(drained, Oldest, bargeIn, accepted)
             /\ drained.remaining = 0 \/ drained.rest = <<>>
             /\ outboundQueue' = drained.rest
             /\ packet'.payload = Padded(drained)
             /\ Oldest \in Nat
<1>1. /\ outboundQueue \in Seq(Buffer) /\ bargeIn \in Nat /\ accepted \in Nat
      /\ Gapless(outboundQueue, accepted) /\ Within(outboundQueue, bargeIn, accepted)
  BY RtpAssumption DEF IInv, TypeOK
<1>2. Oldest = outboundQueue[1].first /\ FirstOf(outboundQueue, accepted) = Oldest
  BY DEF Oldest, FirstOf
<1>3. Oldest \in Nat
  <2>1. 1 \in 1..Len(outboundQueue)
    BY <1>1
  <2>2. outboundQueue[1] \in Buffer
    BY <1>1, <2>1
  <2>. QED  BY <1>2, <2>2 DEF Buffer
<1>4. /\ Drained(Drain(outboundQueue), Oldest, bargeIn, accepted)
      /\ Drain(outboundQueue).remaining = 0 \/ Drain(outboundQueue).rest = <<>>
  BY <1>1, <1>2, <1>3, DrainKeeps
<1>5. outboundQueue' = Drain(outboundQueue).rest /\ packet'.payload = Padded(Drain(outboundQueue))
  BY DEF SendPacket
<1>. QED  BY <1>3, <1>4, <1>5

LEMMA SendPacketStep ==
  ASSUME IInv, SendPacket
  PROVE  IInv'
<1>1. /\ sequenceNumber' = (sequenceNumber + 1) % SeqModulus
      /\ timestamp' = (timestamp + SamplesPerPacket) % TsModulus
      /\ UNCHANGED <<phase, remoteSet, muted, accepted, bargeIn>>
  BY DEF SendPacket, NextSequence
<1>2. sequenceNumber' \in 0..(SeqModulus - 1)
  <2>1. sequenceNumber + 1 \in Nat /\ SeqModulus \in Nat \ {0}
    BY RtpAssumption DEF IInv, TypeOK
  <2>. QED  BY <1>1, <2>1
<1>3. timestamp' \in 0..(TsModulus - 1)
  <2>1. timestamp + SamplesPerPacket \in Nat /\ TsModulus \in Nat \ {0}
    BY RtpAssumption DEF IInv, TypeOK
  <2>. QED  BY <1>1, <2>1
<1>4. /\ outboundQueue' \in Seq(Buffer)
      /\ Gapless(outboundQueue', accepted) /\ Within(outboundQueue', bargeIn, accepted)
      /\ outboundQueue = <<>> => outboundQueue' = <<>>
  <2>1. CASE outboundQueue = <<>>
    <3>1. outboundQueue' = <<>>
      BY <2>1 DEF SendPacket
    <3>. QED  BY <3>1, EmptyQueue
  <2>2. CASE outboundQueue # <<>>
    BY <2>2, PacketStep DEF Drained, LoopState
  <2>. QED  BY <2>1, <2>2
<1>5. TypeOK'
  <2>1. \A i \in DOMAIN outboundQueue' : outboundQueue'[i] \in [first : Nat, len : Nat]
    BY <1>4, BuffersOf
  <2>. QED  BY <1>1, <1>2, <1>3, <2>1 DEF IInv, TypeOK
<1>. QED  BY <1>1, <1>4, <1>5 DEF IInv

\* Muting and stopping empty the queue; nothing else of them matters here.
LEMMA EmptiedStep ==
  ASSUME IInv, outboundQueue' = <<>>, accepted' = accepted, bargeIn' \in {bargeIn, accepted},
         phase' \in {"new", "running", "stopped"}, remoteSet' \in BOOLEAN, muted' \in BOOLEAN,
         UNCHANGED headerVars
  PROVE  IInv'
<1>1. /\ bargeIn' \in 0..MaxBytes /\ bargeIn' <= accepted'
  BY RtpAssumption DEF IInv, TypeOK
<1>2. TypeOK'
  BY <1>1 DEF IInv, TypeOK, headerVars
<1>. QED  BY <1>1, <1>2, EmptyQueue DEF IInv

LEMMA StepIInv == IInv /\ [Next]_vars => IInv'
<1>. SUFFICES ASSUME IInv, [Next]_vars PROVE IInv'
  OBVIOUS
<1>1. CASE Start
  BY <1>1 DEF Start, IInv, TypeOK, queueVars, headerVars
<1>2. CASE SetRemote
  BY <1>2 DEF SetRemote, IInv, TypeOK, queueVars, headerVars
<1>3. ASSUME NEW n \in ChunkSizes, SendAudio(n) PROVE IInv'
  BY <1>3, SendAudioStep
<1>4. CASE BargeIn
  <2>1. outboundQueue' = <<>>
    BY <1>4 DEF BargeIn, SetMuted, IInv
  <2>. QED  BY <1>4, <2>1, EmptiedStep DEF BargeIn, SetMuted, IInv, TypeOK
<1>5. CASE TurnStart
  BY <1>5 DEF TurnStart, SetMuted, IInv, TypeOK, headerVars
<1>6. CASE SendPacket
  BY <1>6, SendPacketStep
<1>7. CASE Stop
  BY <1>7, EmptiedStep DEF Stop, IInv, TypeOK
<1>8. CASE UNCHANGED vars
  BY <1>8 DEF vars, IInv, TypeOK
<1>. QED  BY <1>1, <1>2, <1>3, <1>4, <1>5, <1>6, <1>7, <1>8 DEF Next

LEMMA Invariant == Spec => []IInv
BY InitIInv, StepIInv, PTL DEF Spec

-----------------------------------------------------------------------------
(* The results.                                                            *)

\* rtp-session.ts never passes writeUInt16BE or writeUInt32BE a counter that
\* does not fit.
THEOREM TypeCorrect == Spec => []TypeOK
<1>1. IInv => TypeOK
  BY DEF IInv
<1>. QED  BY <1>1, Invariant, PTL

\* sendAudio and drainQueue keep the outbound queue a gapless run of the bytes
\* that were accepted, whatever the sizes of buffers and packets.
THEOREM QueueSafety == Spec => []QueueIsContiguous
<1>1. IInv => QueueIsContiguous
  BY DEF IInv, Gapless, QueueIsContiguous
<1>. QED  BY <1>1, Invariant, PTL

\* setMuted on a barge-in event of server.ts drops all audio accepted before it,
\* and while muted the queue stays empty.
THEOREM BargeInSafety == Spec => []BargeInDropsAudio
<1>1. IInv => BargeInDropsAudio
  <2>. SUFFICES ASSUME IInv, NEW i \in DOMAIN outboundQueue
                PROVE  outboundQueue[i].first > bargeIn
    BY DEF IInv, BargeInDropsAudio
  <2>1. i \in 1..Len(outboundQueue) /\ outboundQueue[i] \in Buffer
    BY DEF IInv
  <2>2. bargeIn < outboundQueue[i].first
    BY <2>1 DEF IInv, Within
  <2>. QED  BY <2>1, <2>2 DEF Buffer, IInv, TypeOK
<1>. QED  BY <1>1, Invariant, PTL

\* The send loop sends whole packets, each with the bytes that follow those of
\* the packet before, and pads only when the queue runs dry.
THEOREM PacketSafety == Spec => PacketsContinue
<1>1. ASSUME IInv, [Next]_vars, packet' # packet
      PROVE  LET payload == packet'.payload
             IN  /\ Len(payload) = PacketBytes
                 /\ \A i \in 1..PacketBytes :
                      payload[i] = IF Oldest + i - 1 <= accepted THEN Oldest + i - 1 ELSE Pad
                 /\ Oldest' = IF Oldest + PacketBytes <= accepted THEN Oldest + PacketBytes
                              ELSE accepted + 1
  <2>1. SendPacket
    BY <1>1 DEF Next, Start, SetRemote, SendAudio, BargeIn, TurnStart, Stop, vars
  <2>2. PacketBytes \in Nat \ {0} /\ accepted \in Nat
    BY <1>1, RtpAssumption DEF IInv, TypeOK
  <2>3. CASE outboundQueue = <<>>
    <3>1. packet'.payload = Silence /\ outboundQueue' = <<>> /\ accepted' = accepted
      BY <2>1, <2>3 DEF SendPacket
    <3>2. Oldest = accepted + 1 /\ Oldest' = accepted + 1
      BY <2>3, <3>1 DEF Oldest
    <3>3. Len(Silence) = PacketBytes /\ \A i \in 1..PacketBytes : Silence[i] = Pad
      BY <2>2 DEF Silence
    <3>4. \A i \in 1..PacketBytes : ~(Oldest + i - 1 <= accepted)
      BY <2>2, <3>2
    <3>5. ~(Oldest + PacketBytes <= accepted)
      BY <2>2, <3>2
    <3>. QED  BY <3>1, <3>2, <3>3, <3>4, <3>5
  <2>4. CASE outboundQueue # <<>>
    <3> DEFINE drained == Drain(outboundQueue)
               silence == [i \in 1..drained.remaining |-> Pad]
               payload == packet'.payload
    <3>1. /\ Drained(drained, Oldest, bargeIn, accepted)
          /\ drained.remaining = 0 \/ drained.rest = <<>>
          /\ outboundQueue' = drained.rest
          /\ payload = drained.out \o silence
          /\ Oldest \in Nat
          /\ accepted' = accepted
      BY <1>1, <2>1, <2>4, PacketStep DEF Padded, SendPacket
    <3>. HIDE DEF drained, payload
    <3>2. /\ drained.out \in Seq(Nat) /\ drained.remaining \in Nat
          /\ Len(drained.out) + drained.remaining = PacketBytes
          /\ \A i \in 1..Len(drained.out) : drained.out[i] = Oldest + i - 1
      BY <2>2, <3>1 DEF Drained, LoopState
    <3>3. /\ silence \in Seq(Nat) /\ Len(silence) = drained.remaining
          /\ \A i \in 1..drained.remaining : silence[i] = Pad
      BY <3>2 DEF Pad
    <3>. HIDE DEF silence
    <3>4. Oldest' = Oldest + Len(drained.out)
      BY <3>1 DEF Drained, FirstOf, Oldest
    <3>5. Oldest + Len(drained.out) <= accepted + 1
      <4>1. drained.rest \in Seq(Buffer)
        BY <3>1 DEF Drained, LoopState
      <4>2. CASE drained.rest = <<>>
        BY <2>2, <3>1, <3>4, <4>2 DEF Oldest
      <4>3. CASE drained.rest # <<>>
        <5>1. 1 \in 1..Len(drained.rest) /\ drained.rest[1] \in Buffer
          BY <4>1, <4>3
        <5>2. drained.rest[1].first + drained.rest[1].len <= accepted + 1
          BY <3>1, <5>1 DEF Drained, Within
        <5>3. Oldest' = drained.rest[1].first
          BY <3>1, <4>3 DEF Oldest
        <5>. QED  BY <2>2, <3>4, <5>1, <5>2, <5>3 DEF Buffer
      <4>. QED  BY <4>2, <4>3
    <3>6. drained.remaining # 0 => Oldest' = accepted + 1
      BY <3>1 DEF Oldest
    <3>7. Len(drained.out) \in Nat
      BY <3>2
    <3>8. Len(payload) = PacketBytes
      <4>1. payload = drained.out \o silence
        BY <3>1
      <4>2. drained.out \in Seq(Nat) /\ silence \in Seq(Nat)
        BY <3>2, <3>3
      <4>3. Len(drained.out \o silence) = Len(drained.out) + Len(silence)
        BY <4>2
      <4>. QED  BY <3>2, <3>3, <4>1, <4>3
    <3>9. ASSUME NEW i \in 1..PacketBytes
          PROVE  payload[i] = IF Oldest + i - 1 <= accepted THEN Oldest + i - 1 ELSE Pad
      <4>1. CASE i \in 1..Len(drained.out)
        <5>1. payload[i] = drained.out[i]
          BY <3>1, <3>2, <3>3, <4>1
        <5>2. Oldest + i - 1 <= accepted
          BY <2>2, <3>1, <3>5, <3>7, <4>1
        <5>. QED  BY <3>2, <4>1, <5>1, <5>2
      <4>2. CASE i \notin 1..Len(drained.out)
        <5>1. i - Len(drained.out) \in 1..drained.remaining /\ drained.remaining # 0
          BY <2>2, <3>2, <3>7, <4>2
        <5>2. payload[i] = silence[i - Len(drained.out)]
          BY <3>1, <3>2, <3>3, <3>7, <4>2, <5>1
        <5>3. ~(Oldest + i - 1 <= accepted)
          <6>1. Oldest + Len(drained.out) = accepted + 1
            BY <3>4, <3>6, <5>1
          <6>. QED  BY <2>2, <3>1, <3>7, <4>2, <6>1
        <5>. QED  BY <3>3, <5>1, <5>2, <5>3
      <4>. QED  BY <4>1, <4>2
    <3>10. Oldest' = IF Oldest + PacketBytes <= accepted THEN Oldest + PacketBytes ELSE accepted + 1
      <4>1. CASE drained.remaining = 0
        <5>1. Len(drained.out) = PacketBytes
          BY <2>2, <3>2, <3>7, <4>1
        <5>. QED  BY <2>2, <3>1, <3>4, <3>5, <5>1
      <4>2. CASE drained.remaining # 0
        <5>1. Oldest + Len(drained.out) = accepted + 1
          BY <3>4, <3>6, <4>2
        <5>2. ~(Oldest + PacketBytes <= accepted)
          <6>1. Len(drained.out) < PacketBytes
            BY <2>2, <3>2, <3>7, <4>2
          <6>. QED  BY <2>2, <3>1, <3>7, <5>1, <6>1
        <5>. QED  BY <3>6, <4>2, <5>2
      <4>. QED  BY <4>1, <4>2
    <3>. QED  BY <3>8, <3>9, <3>10 DEF payload
  <2>. QED  BY <2>3, <2>4
<1>2. IInv /\ [Next]_vars =>
        [packet' # packet =>
           LET payload == packet'.payload
           IN  /\ Len(payload) = PacketBytes
               /\ \A i \in 1..PacketBytes :
                    payload[i] = IF Oldest + i - 1 <= accepted THEN Oldest + i - 1 ELSE Pad
               /\ Oldest' = IF Oldest + PacketBytes <= accepted THEN Oldest + PacketBytes
                            ELSE accepted + 1]_vars
  BY <1>1
<1>. QED  BY <1>2, Invariant, PTL DEF Spec, PacketsContinue
=============================================================================
