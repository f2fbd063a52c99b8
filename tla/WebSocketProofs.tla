---------------------------- MODULE WebSocketProofs ----------------------------
(***************************************************************************)
(* Proofs about WebSocket, for every number of messages, pushes, errors and  *)
(* write buffers, every size of a read and every choice of the messages on   *)
(* which the application may close the connection.                         *)
(***************************************************************************)
EXTENDS WebSocket, SequenceTheorems, TLAPS

-------------------------------------------------------------------------------
(***************************************************************************)
(* Sequences.                                                               *)
(***************************************************************************)

LEMMA ConsSeq ==
  ASSUME NEW S, NEW x \in S, NEW s \in Seq(S)
  PROVE  /\ <<x>> \o s \in Seq(S)
         /\ Len(<<x>> \o s) = Len(s) + 1
         /\ (<<x>> \o s)[1] = x
         /\ \A i \in 1 .. Len(s) : (<<x>> \o s)[i + 1] = s[i]
         /\ <<x>> \o s # <<>>
  <1>1. <<x>> \in Seq(S) /\ Len(<<x>>) = 1 /\ <<x>>[1] = x
    OBVIOUS
  <1>2. Len(s) \in Nat
    BY LenProperties
  <1>3. /\ <<x>> \o s \in Seq(S)
        /\ Len(<<x>> \o s) = 1 + Len(s)
        /\ \A i \in 1 .. 1 + Len(s) : (<<x>> \o s)[i] =
              IF i <= 1 THEN <<x>>[i] ELSE s[i - 1]
    BY <1>1, ConcatProperties
  <1>4. \A i \in 1 .. Len(s) : i + 1 \in 1 .. 1 + Len(s) /\ ~ (i + 1 <= 1) /\ (i + 1) - 1 = i
    BY <1>2
  <1> QED
    BY <1>1, <1>2, <1>3, <1>4, EmptySeq

LEMMA UnconsSeq ==
  ASSUME NEW S, NEW s \in Seq(S), s # <<>>
  PROVE  /\ Head(s) = s[1] /\ s[1] \in S
         /\ Len(s) \in Nat \ {0}
         /\ Tail(s) \in Seq(S)
         /\ Len(Tail(s)) = Len(s) - 1
         /\ \A i \in 1 .. Len(s) - 1 : Tail(s)[i] = s[i + 1]
  BY HeadTailProperties, EmptySeq

LEMMA DropSeq ==
  ASSUME NEW S, NEW s \in Seq(S), NEW n \in 0 .. Len(s)
  PROVE  /\ SubSeq(s, n + 1, Len(s)) \in Seq(S)
         /\ Len(SubSeq(s, n + 1, Len(s))) = Len(s) - n
         /\ \A i \in 1 .. Len(s) - n : SubSeq(s, n + 1, Len(s))[i] = s[n + i]
  <1>1. Len(s) \in Nat /\ n \in Nat
    BY LenProperties
  <1>2. \A i \in n + 1 .. Len(s) : s[i] \in S
    BY <1>1, ElementOfSeq
  <1>3. /\ SubSeq(s, n + 1, Len(s)) \in Seq(S)
        /\ Len(SubSeq(s, n + 1, Len(s))) =
              IF n + 1 <= Len(s) THEN Len(s) - (n + 1) + 1 ELSE 0
        /\ \A i \in 1 .. Len(s) - (n + 1) + 1 :
              SubSeq(s, n + 1, Len(s))[i] = s[(n + 1) + i - 1]
    BY <1>1, <1>2, SubSeqProperties
  <1> QED
    BY <1>1, <1>3

LEMMA TakeSeq ==
  ASSUME NEW S, NEW s \in Seq(S), NEW n \in 0 .. Len(s)
  PROVE  /\ SubSeq(s, 1, n) \in Seq(S)
         /\ Len(SubSeq(s, 1, n)) = n
         /\ \A i \in 1 .. n : SubSeq(s, 1, n)[i] = s[i]
  <1>1. Len(s) \in Nat /\ n \in Nat
    BY LenProperties
  <1>2. \A i \in 1 .. n : s[i] \in S
    BY <1>1, ElementOfSeq
  <1>3. /\ SubSeq(s, 1, n) \in Seq(S)
        /\ Len(SubSeq(s, 1, n)) = IF 1 <= n THEN n - 1 + 1 ELSE 0
        /\ \A i \in 1 .. n - 1 + 1 : SubSeq(s, 1, n)[i] = s[1 + i - 1]
    BY <1>1, <1>2, SubSeqProperties
  <1> QED
    BY <1>1, <1>3

-------------------------------------------------------------------------------
(***************************************************************************)
(* The calls in progress.                                                   *)
(***************************************************************************)

\* h2o_websocket_proceed goes on, in its loop or behind it.
LEMMA NestReplace ==
  ASSUME NEW s \in Seq(Calls), s # <<>>, WellNested(s), s[1] # "recv",
         NEW x \in {"proceed", "finish"}
  PROVE  /\ <<x>> \o Tail(s) \in Seq(Calls)
         /\ <<x>> \o Tail(s) # <<>>
         /\ (<<x>> \o Tail(s))[1] = x
         /\ Len(<<x>> \o Tail(s)) = Len(s)
         /\ WellNested(<<x>> \o Tail(s))
  <1> DEFINE t == <<x>> \o Tail(s)
  <1>1. /\ Len(s) \in Nat \ {0} /\ Tail(s) \in Seq(Calls)
        /\ Len(Tail(s)) = Len(s) - 1
        /\ \A i \in 1 .. Len(s) - 1 : Tail(s)[i] = s[i + 1]
    BY UnconsSeq
  <1>2. x \in Calls
    BY DEF Calls
  <1>3. /\ t \in Seq(Calls) /\ Len(t) = Len(s) /\ t[1] = x /\ t # <<>>
        /\ \A i \in 1 .. Len(s) - 1 : t[i + 1] = Tail(s)[i]
    <2>1. /\ t \in Seq(Calls) /\ Len(t) = Len(Tail(s)) + 1 /\ t[1] = x /\ t # <<>>
          /\ \A i \in 1 .. Len(Tail(s)) : t[i + 1] = Tail(s)[i]
      BY <1>1, <1>2, ConsSeq
    <2> HIDE DEF t
    <2> QED
      BY <2>1, <1>1
  <1> HIDE DEF t
  <1>4. \A i \in 2 .. Len(s) : t[i] = s[i]
    <2> TAKE i \in 2 .. Len(s)
    <2>1. i - 1 \in 1 .. Len(s) - 1 /\ (i - 1) + 1 = i
      BY <1>1
    <2> QED
      BY <2>1, <1>1, <1>3
  <1>5. ASSUME NEW i \in 1 .. Len(t) - 1
        PROVE  t[i + 1] = IF t[i] = "recv" THEN "waiting" ELSE "recv"
    BY <1>1, <1>3, <1>4 DEF WellNested
  <1>6. t[Len(t)] # "recv"
    BY <1>1, <1>3, <1>4 DEF WellNested
  <1>7. WellNested(t)
    BY <1>3, <1>5, <1>6 DEF WellNested
  <1> QED
    BY <1>3, <1>7 DEF t

\* h2o_websocket_proceed returns.
LEMMA NestPop ==
  ASSUME NEW s \in Seq(Calls), s # <<>>, WellNested(s), s[1] # "recv"
  PROVE  /\ Tail(s) \in Seq(Calls)
         /\ Len(Tail(s)) = Len(s) - 1
         /\ WellNested(Tail(s))
         /\ Tail(s) # <<>> => Tail(s)[1] = "recv" /\ Len(Tail(s)) # 1
  <1>1. /\ Len(s) \in Nat \ {0} /\ Tail(s) \in Seq(Calls)
        /\ Len(Tail(s)) = Len(s) - 1
        /\ \A i \in 1 .. Len(s) - 1 : Tail(s)[i] = s[i + 1]
    BY UnconsSeq
  <1>2. Tail(s) # <<>> => Len(s) > 1 /\ Tail(s)[1] = "recv"
    <2> SUFFICES ASSUME Tail(s) # <<>> PROVE Len(s) > 1 /\ Tail(s)[1] = "recv"
      OBVIOUS
    <2>1. Len(s) > 1
      BY <1>1, EmptySeq
    <2> QED
      BY <2>1, <1>1 DEF WellNested
  <1>3. ASSUME Tail(s) # <<>>
        PROVE  Tail(s)[Len(Tail(s))] # "recv"
    BY <1>1, <1>2, <1>3 DEF WellNested
  <1>4. ASSUME NEW i \in 1 .. Len(Tail(s)) - 1
        PROVE  Tail(s)[i + 1] = IF Tail(s)[i] = "recv" THEN "waiting" ELSE "recv"
    BY <1>1 DEF WellNested
  <1> QED
    BY <1>1, <1>2, <1>3, <1>4 DEF WellNested

\* wslay_event_recv returns, to the call of h2o_websocket_proceed that is behind
\* it: calls around that one remain.
LEMMA NestReturn ==
  ASSUME NEW s \in Seq(Calls), s # <<>>, WellNested(s), s[1] = "recv"
  PROVE  LET r == SubSeq(s, 3, Len(s)) IN
         /\ r \in Seq(Calls)
         /\ WellNested(r)
         /\ <<"proceed">> \o r \in Seq(Calls)
         /\ <<"proceed">> \o r # <<>>
         /\ (<<"proceed">> \o r)[1] = "proceed"
         /\ WellNested(<<"proceed">> \o r)
  <1> DEFINE r == SubSeq(s, 3, Len(s))
             t == <<"proceed">> \o r
  <1>1. Len(s) \in Nat \ {0}
    BY EmptySeq
  <1>2. Len(s) >= 2 /\ s[2] = "waiting"
    BY <1>1 DEF WellNested
  <1>3. /\ r \in Seq(Calls) /\ Len(r) = Len(s) - 2
        /\ \A i \in 1 .. Len(s) - 2 : r[i] = s[2 + i]
    <2>1. r = SubSeq(s, 2 + 1, Len(s)) /\ 2 \in 0 .. Len(s)
      BY <1>1, <1>2
    <2> HIDE DEF r
    <2> QED
      BY <2>1, DropSeq
  <1>4. /\ t \in Seq(Calls) /\ Len(t) = Len(s) - 1 /\ t[1] = "proceed" /\ t # <<>>
        /\ \A i \in 1 .. Len(s) - 2 : t[i + 1] = r[i]
    <2>1. "proceed" \in Calls
      BY DEF Calls
    <2> HIDE DEF r
    <2>2. /\ t \in Seq(Calls) /\ Len(t) = Len(r) + 1 /\ t[1] = "proceed" /\ t # <<>>
          /\ \A i \in 1 .. Len(r) : t[i + 1] = r[i]
      BY <2>1, <1>3, ConsSeq
    <2> HIDE DEF t
    <2> QED
      BY <2>2, <1>1, <1>3
  <1> HIDE DEF r, t
  <1>5. r # <<>> => Len(s) > 2 /\ r[1] = "recv" /\ r[Len(r)] # "recv"
    <2> SUFFICES ASSUME r # <<>>
                 PROVE  Len(s) > 2 /\ r[1] = "recv" /\ r[Len(r)] # "recv"
      OBVIOUS
    <2>1. Len(r) >= 1
      BY <1>3, EmptySeq
    <2>2. r[1] = s[3] /\ r[Len(r)] = s[Len(s)]
      BY <2>1, <1>1, <1>3
    <2>3. s[3] = "recv"
      BY <2>1, <1>1, <1>2, <1>3 DEF WellNested
    <2> QED
      BY <2>1, <2>2, <2>3, <1>1, <1>3 DEF WellNested
  <1>6. \A i \in 1 .. Len(r) - 1 :
           r[i + 1] = IF r[i] = "recv" THEN "waiting" ELSE "recv"
    <2> TAKE i \in 1 .. Len(r) - 1
    <2>1. /\ i \in 1 .. Len(s) - 2 /\ i + 1 \in 1 .. Len(s) - 2
          /\ i + 2 \in 1 .. Len(s) - 1 /\ 2 + i = i + 2 /\ 2 + (i + 1) = (i + 2) + 1
      BY <1>1, <1>3
    <2>2. r[i + 1] = s[(i + 2) + 1] /\ r[i] = s[i + 2]
      BY <2>1, <1>3
    <2> QED
      BY <2>1, <2>2 DEF WellNested
  <1>7. \A i \in 1 .. Len(t) - 1 :
           t[i + 1] = IF t[i] = "recv" THEN "waiting" ELSE "recv"
    <2> TAKE i \in 1 .. Len(t) - 1
    <2>1. CASE i = 1
      <3>1. Len(r) >= 1 /\ r # <<>>
        BY <2>1, <1>1, <1>3, <1>4, EmptySeq
      <3> QED
        BY <2>1, <3>1, <1>3, <1>4, <1>5
    <2>2. CASE i > 1
      <3>1. i - 1 \in 1 .. Len(r) - 1 /\ (i - 1) + 1 = i
        BY <2>2, <1>1, <1>3, <1>4
      <3>2. t[i + 1] = r[i] /\ t[i] = r[i - 1]
        BY <3>1, <1>1, <1>3, <1>4
      <3> QED
        BY <3>1, <3>2, <1>6
    <2> QED
      BY <2>1, <2>2, <1>1, <1>4
  <1>8. t[Len(t)] # "recv"
    <2>1. CASE Len(t) = 1
      BY <2>1, <1>4
    <2>2. CASE Len(t) > 1
      <3>1. r # <<>> /\ t[Len(t)] = r[Len(r)]
        BY <2>2, <1>1, <1>3, <1>4, EmptySeq
      <3> QED
        BY <3>1, <1>5
    <2> QED
      BY <2>1, <2>2, <1>1, <1>2, <1>4
  <1>9. WellNested(r) /\ WellNested(t)
    BY <1>3, <1>4, <1>5, <1>6, <1>7, <1>8 DEF WellNested
  <1> QED
    BY <1>3, <1>4, <1>9 DEF r, t

\* wslay_event_recv hands a message to the application, which calls
\* h2o_websocket_proceed.
LEMMA NestPush ==
  ASSUME NEW s \in Seq(Calls), s # <<>>, WellNested(s), s[1] = "recv"
  PROVE  /\ <<"proceed">> \o s \in Seq(Calls)
         /\ <<"proceed">> \o s # <<>>
         /\ (<<"proceed">> \o s)[1] = "proceed"
         /\ Len(<<"proceed">> \o s) # 1
         /\ WellNested(<<"proceed">> \o s)
  <1> DEFINE t == <<"proceed">> \o s
  <1>1. Len(s) \in Nat \ {0}
    BY EmptySeq
  <1>2. "proceed" \in Calls
    BY DEF Calls
  <1>3. /\ t \in Seq(Calls) /\ Len(t) = Len(s) + 1 /\ t[1] = "proceed" /\ t # <<>>
        /\ \A i \in 1 .. Len(s) : t[i + 1] = s[i]
    BY <1>2, ConsSeq
  <1> HIDE DEF t
  <1>4. \A i \in 1 .. Len(t) - 1 :
           t[i + 1] = IF t[i] = "recv" THEN "waiting" ELSE "recv"
    <2> TAKE i \in 1 .. Len(t) - 1
    <2>1. CASE i = 1
      BY <2>1, <1>1, <1>3
    <2>2. CASE i > 1
      <3>1. i - 1 \in 1 .. Len(s) - 1 /\ i - 1 \in 1 .. Len(s) /\ (i - 1) + 1 = i
        BY <2>2, <1>1, <1>3
      <3>2. t[i + 1] = s[i] /\ t[i] = s[i - 1]
        BY <3>1, <1>1, <1>3
      <3> QED
        BY <3>1, <3>2 DEF WellNested
    <2> QED
      BY <2>1, <2>2, <1>1, <1>3
  <1>5. t[Len(t)] # "recv"
    <2>1. t[Len(s) + 1] = s[Len(s)]
      BY <1>1, <1>3
    <2> QED
      BY <2>1, <1>1, <1>3 DEF WellNested
  <1>6. WellNested(t)
    BY <1>3, <1>4, <1>5 DEF WellNested
  <1> QED
    BY <1>1, <1>3, <1>6 DEF t

\* h2o_websocket_proceed calls wslay_event_recv.
LEMMA NestCall ==
  ASSUME NEW s \in Seq(Calls), s # <<>>, WellNested(s), s[1] # "recv"
  PROVE  LET t == <<"recv", "waiting">> \o Tail(s) IN
         /\ t \in Seq(Calls)
         /\ t # <<>>
         /\ t[1] = "recv"
         /\ Len(t) # 1
         /\ WellNested(t)
  <1> DEFINE r == Tail(s)
             h == <<"recv", "waiting">>
             t == h \o r
  <1>1. Len(s) \in Nat \ {0}
    BY EmptySeq
  <1>2. /\ r \in Seq(Calls) /\ Len(r) = Len(s) - 1 /\ WellNested(r)
        /\ r # <<>> => r[1] = "recv"
    BY NestPop
  <1>3. h \in Seq(Calls) /\ Len(h) = 2 /\ h[1] = "recv" /\ h[2] = "waiting"
    BY DEF Calls
  <1> HIDE DEF r, h
  <1>4. /\ t \in Seq(Calls) /\ Len(t) = 2 + Len(r)
        /\ \A i \in 1 .. 2 + Len(r) : t[i] = IF i <= 2 THEN h[i] ELSE r[i - 2]
    <2>1. /\ t \in Seq(Calls) /\ Len(t) = Len(h) + Len(r)
          /\ \A i \in 1 .. Len(h) + Len(r) :
                t[i] = IF i <= Len(h) THEN h[i] ELSE r[i - Len(h)]
      BY <1>2, <1>3, ConcatProperties
    <2> HIDE DEF t
    <2> QED
      BY <2>1, <1>3
  <1> HIDE DEF t
  <1>5. /\ t[1] = "recv" /\ t[2] = "waiting"
        /\ \A i \in 3 .. Len(t) : t[i] = r[i - 2]
    BY <1>1, <1>2, <1>3, <1>4
  <1>6. \A i \in 1 .. Len(t) - 1 :
           t[i + 1] = IF t[i] = "recv" THEN "waiting" ELSE "recv"
    <2> TAKE i \in 1 .. Len(t) - 1
    <2>1. CASE i = 1
      BY <2>1, <1>5
    <2>2. CASE i = 2
      <3>1. t[3] = r[1] /\ Len(r) >= 1
        BY <2>2, <1>1, <1>2, <1>4, <1>5
      <3> QED
        BY <2>2, <3>1, <1>2, <1>5, EmptySeq
    <2>3. CASE i > 2
      <3>1. i - 2 \in 1 .. Len(r) - 1 /\ (i + 1) - 2 = (i - 2) + 1
        BY <2>3, <1>1, <1>2, <1>4
      <3>2. t[i + 1] = r[(i - 2) + 1] /\ t[i] = r[i - 2]
        BY <2>3, <3>1, <1>1, <1>2, <1>4, <1>5
      <3> QED
        BY <3>1, <3>2, <1>2 DEF WellNested
    <2> QED
      BY <2>1, <2>2, <2>3, <1>1, <1>2, <1>4
  <1>7. t[Len(t)] # "recv"
    <2>1. CASE Len(r) = 0
      BY <2>1, <1>4, <1>5
    <2>2. CASE Len(r) > 0
      <3>1. t[Len(t)] = r[Len(r)] /\ r # <<>>
        BY <2>2, <1>1, <1>2, <1>4, <1>5, EmptySeq
      <3> QED
        BY <3>1, <1>2 DEF WellNested
    <2> QED
      BY <2>1, <2>2, <1>1, <1>2
  <1>8. WellNested(t) /\ t # <<>> /\ Len(t) # 1
    BY <1>1, <1>2, <1>4, <1>5, <1>6, <1>7, EmptySeq DEF WellNested
  <1> QED
    BY <1>4, <1>5, <1>8 DEF t, r, h

\* The loop enters the code.
LEMMA NestOne ==
  /\ <<"proceed">> \in Seq(Calls) /\ <<"proceed">> # <<>>
  /\ <<"proceed">>[1] = "proceed" /\ Len(<<"proceed">>) = 1
  /\ WellNested(<<"proceed">>)
  /\ <<>> \in Seq(Calls) /\ WellNested(<<>>) /\ Len(<<>>) = 0
  <1>1. /\ <<"proceed">> \in Seq(Calls) /\ <<"proceed">> # <<>>
        /\ <<"proceed">>[1] = "proceed" /\ Len(<<"proceed">>) = 1
    BY DEF Calls
  <1>2. <<>> \in Seq(Calls) /\ Len(<<>>) = 0
    BY EmptySeq
  <1> QED
    BY <1>1, <1>2 DEF WellNested

-------------------------------------------------------------------------------
(***************************************************************************)
(* What is written.                                                         *)
(***************************************************************************)
Frames == Data \cup {Close}

LEMMA WithoutCloseNone ==
  ASSUME NEW s \in Seq(Frames), \A i \in 1 .. Len(s) : s[i] # Close
  PROVE  WithoutClose(s) = s
  <1>1. s # <<>> => Len(s) \in 1 .. Len(s)
    BY EmptySeq
  <1> QED
    BY <1>1 DEF WithoutClose

LEMMA WithoutCloseLast ==
  ASSUME NEW s \in Seq(Frames)
  PROVE  WithoutClose(Append(s, Close)) = s
  <1> DEFINE t == Append(s, Close)
  <1>1. /\ t \in Seq(Frames) /\ t # <<>> /\ Len(t) = Len(s) + 1
        /\ \A i \in 1 .. Len(s) : t[i] = s[i]
        /\ t[Len(s) + 1] = Close
    BY AppendProperties DEF Frames
  <1> HIDE DEF t
  <1>2. Len(s) \in Nat
    BY LenProperties
  <1>3. /\ SubSeq(t, 1, Len(s)) \in Seq(Frames) /\ Len(SubSeq(t, 1, Len(s))) = Len(s)
        /\ \A i \in 1 .. Len(s) : SubSeq(t, 1, Len(s))[i] = t[i]
    BY <1>1, <1>2, TakeSeq
  <1>4. SubSeq(t, 1, Len(s)) = s
    BY <1>1, <1>3, SeqEqual
  <1>5. Len(t) - 1 = Len(s)
    BY <1>1, <1>2
  <1>6. WithoutClose(t) = SubSeq(t, 1, Len(t) - 1)
    BY <1>1 DEF WithoutClose
  <1> QED
    BY <1>4, <1>5, <1>6 DEF t

LEMMA WrittenType ==
  ASSUME TypeOK
  PROVE  /\ Written \in Seq(Frames) /\ Len(Written) \in Nat
         /\ wire \in Seq(Frames) /\ bufs \in Seq(Frames) /\ outq \in Seq(Frames)
         /\ accepted \in Seq(Data) /\ Len(accepted) \in Nat
  <1>1. wire \in Seq(Frames) /\ bufs \in Seq(Frames)
    BY DEF TypeOK, Frames
  <1>2. outq \in Seq(Frames)
    BY SeqMonotonic DEF TypeOK, Frames
  <1>3. Written \in Seq(Frames)
    BY <1>1, ConcatProperties DEF Written
  <1>4. accepted \in Seq(Data)
    BY DEF TypeOK
  <1> QED
    BY <1>1, <1>2, <1>3, <1>4, LenProperties

\* A step that leaves the messages alone.
LEMMA DataFrame ==
  ASSUME DataInv, phase' = "open" => phase = "open",
         UNCHANGED <<ibuf, outq, closeQueued, readEnabled, writeEnabled, accepted,
                     arrived, input, bufs, wire>>
  PROVE  DataInv'
  <1>1. CloseInv'
    BY DEF DataInv, CloseInv, Written
  <1>2. StreamInv'
    BY DEF DataInv, StreamInv, Consumed, Echoes
  <1>3. EchoesInOrder'
    BY DEF DataInv, NothingReordered, EchoesInOrder, Echoes
  <1>4. SentInOrder'
    BY DEF DataInv, NothingReordered, SentInOrder, Written, WithoutClose
  <1>5. CloseIsLast'
    BY DEF DataInv, NothingReordered, CloseIsLast, Written
  <1> QED
    BY <1>1, <1>2, <1>3, <1>4, <1>5 DEF DataInv, NothingReordered

\* on_write_complete.
LEMMA DataWritten ==
  ASSUME TypeOK, DataInv, OnWriteComplete
  PROVE  /\ wire' \in Seq(Frames) /\ bufs' = <<>>
         /\ DataInv'
  <1>1. /\ wire' = wire \o bufs /\ bufs' = <<>> /\ phase' = phase
        /\ UNCHANGED <<ibuf, outq, closeQueued, readEnabled, writeEnabled, accepted,
                       arrived, input>>
    BY DEF OnWriteComplete, connVars, wslayVars
  <1>2. wire' \in Seq(Frames)
    BY <1>1, WrittenType DEF Written
  <1>3. Written' = Written
    BY <1>1, <1>2, ConcatEmptySeq DEF Written
  <1>4. CloseInv'
    BY <1>1, <1>3 DEF DataInv, CloseInv
  <1>5. StreamInv'
    BY <1>1 DEF DataInv, StreamInv, Consumed, Echoes
  <1>6. EchoesInOrder'
    BY <1>1 DEF DataInv, NothingReordered, EchoesInOrder, Echoes
  <1>7. SentInOrder'
    BY <1>1, <1>3 DEF DataInv, NothingReordered, SentInOrder, WithoutClose
  <1>8. CloseIsLast'
    BY <1>3 DEF DataInv, NothingReordered, CloseIsLast
  <1> QED
    BY <1>1, <1>2, <1>4, <1>5, <1>6, <1>7, <1>8 DEF DataInv, NothingReordered

-------------------------------------------------------------------------------
(***************************************************************************)
(* What is read.                                                            *)
(***************************************************************************)
PeerFrames == PeerMsgs \cup {Close}

LEMMA StreamType ==
  ASSUME TypeOK
  PROVE  /\ ibuf \in Seq(PeerFrames) /\ Len(ibuf) \in Nat
         /\ input \in Seq(PeerFrames) /\ Len(input) \in Nat
         /\ arrived \in Nat /\ arrived <= MaxMsgs + 1 /\ MaxMsgs \in Nat
         /\ Consumed \in Int
  <1>1. ibuf \in Seq(PeerFrames) /\ input \in Seq(PeerFrames)
    BY DEF TypeOK, PeerFrames
  <1>2. Len(ibuf) \in Nat /\ Len(input) \in Nat
    BY <1>1, LenProperties
  <1>3. MaxMsgs \in Nat
    BY BoundsAssumption
  <1>4. arrived \in Nat /\ arrived <= MaxMsgs + 1
    BY <1>3 DEF TypeOK
  <1> QED
    BY <1>1, <1>2, <1>3, <1>4 DEF Consumed

\* h2o has read k messages into sock->input.
LEMMA DataArrives ==
  ASSUME TypeOK, DataInv, NEW k \in 0 .. MaxMsgs + 1 - arrived,
         input' = input \o Arriving(k), arrived' = arrived + k,
         UNCHANGED <<ibuf, outq, closeQueued, readEnabled, writeEnabled, accepted,
                     bufs, wire>>,
         phase = "open" \/ Echoes(Len(accepted)) = 1 .. Consumed
  PROVE  /\ input' \in Seq(PeerFrames) /\ arrived' \in 0 .. MaxMsgs + 1
         /\ DataInv'
  <1> DEFINE a == Arriving(k)
  <1>1. /\ ibuf \in Seq(PeerFrames) /\ Len(ibuf) \in Nat
        /\ input \in Seq(PeerFrames) /\ Len(input) \in Nat
        /\ arrived \in Nat /\ MaxMsgs \in Nat /\ Consumed \in Int
    BY StreamType
  <1>2. k \in Nat /\ arrived + k <= MaxMsgs + 1
    BY <1>1
  <1>3. a \in [1 .. k -> PeerFrames]
        /\ \A i \in 1 .. k : a[i] = PeerMsg(arrived + i)
    BY <1>1, <1>2 DEF Arriving, PeerMsg, PeerFrames, PeerMsgs, Close
  <1>4. a \in Seq(PeerFrames) /\ Len(a) = k
    BY <1>2, <1>3
  <1> HIDE DEF a
  <1>5. /\ input' \in Seq(PeerFrames) /\ Len(input') = Len(input) + k
        /\ \A i \in 1 .. Len(input) + k :
              input'[i] = IF i <= Len(input) THEN input[i] ELSE a[i - Len(input)]
    <2>1. /\ input \o a \in Seq(PeerFrames) /\ Len(input \o a) = Len(input) + Len(a)
          /\ \A i \in 1 .. Len(input) + Len(a) :
                (input \o a)[i] = IF i <= Len(input) THEN input[i] ELSE a[i - Len(input)]
      BY <1>1, <1>4, ConcatProperties
    <2>2. input' = input \o a
      BY DEF a
    <2> QED
      BY <2>1, <2>2, <1>4
  <1>6. Consumed' = Consumed
    BY <1>1, <1>2, <1>5 DEF Consumed
  <1>7. ASSUME NEW i \in 1 .. Len(input')
        PROVE  input'[i] = PeerMsg(Consumed + Len(ibuf) + i)
    <2>1. CASE i <= Len(input)
      <3>1. i \in 1 .. Len(input) /\ input'[i] = input[i]
        BY <2>1, <1>1, <1>2, <1>5
      <3> QED
        BY <3>1 DEF DataInv, StreamInv
    <2>2. CASE i > Len(input)
      <3>1. i - Len(input) \in 1 .. k /\ arrived + (i - Len(input)) = Consumed + Len(ibuf) + i
        BY <2>2, <1>1, <1>2, <1>5 DEF Consumed
      <3>2. input'[i] = a[i - Len(input)]
        BY <2>2, <1>1, <1>2, <1>5
      <3> QED
        BY <3>1, <3>2, <1>3
    <2> QED
      BY <2>1, <2>2, <1>1, <1>2, <1>5
  <1>8. Echoes(Len(accepted))' = Echoes(Len(accepted))
    BY DEF Echoes
  <1>9. StreamInv'
    BY <1>6, <1>7, <1>8 DEF DataInv, StreamInv, PeerMsg
  <1>10. CloseInv'
    BY DEF DataInv, CloseInv, Written
  <1>11. EchoesInOrder'
    BY DEF DataInv, NothingReordered, EchoesInOrder, Echoes
  <1>12. SentInOrder'
    BY DEF DataInv, NothingReordered, SentInOrder, Written, WithoutClose
  <1>13. CloseIsLast'
    BY DEF DataInv, NothingReordered, CloseIsLast, Written
  <1>14. arrived' \in 0 .. MaxMsgs + 1
    BY <1>1, <1>2
  <1> QED
    BY <1>5, <1>9, <1>10, <1>11, <1>12, <1>13, <1>14 DEF DataInv, NothingReordered

\* recv_callback hands n of the messages to wslay.
LEMMA DataHanded ==
  ASSUME TypeOK, DataInv, ibuf = <<>>, NEW n \in 0 .. Len(input),
         ibuf' = SubSeq(input, 1, n), input' = SubSeq(input, n + 1, Len(input)),
         phase' = phase,
         UNCHANGED <<outq, closeQueued, readEnabled, writeEnabled, accepted,
                     arrived, bufs, wire>>
  PROVE  /\ ibuf' \in Seq(PeerFrames) /\ input' \in Seq(PeerFrames)
         /\ DataInv'
  <1>1. /\ Len(ibuf) = 0
        /\ input \in Seq(PeerFrames) /\ Len(input) \in Nat
        /\ arrived \in Nat /\ MaxMsgs \in Nat /\ Consumed \in Int
    BY StreamType, EmptySeq
  <1>2. /\ ibuf' \in Seq(PeerFrames) /\ Len(ibuf') = n
        /\ \A i \in 1 .. n : ibuf'[i] = input[i]
    BY <1>1, TakeSeq
  <1>3. /\ input' \in Seq(PeerFrames) /\ Len(input') = Len(input) - n
        /\ \A i \in 1 .. Len(input) - n : input'[i] = input[n + i]
    BY <1>1, DropSeq
  <1>4. Consumed' = Consumed
    <2>1. arrived' = arrived /\ n \in Int
      BY <1>1
    <2>2. arrived - n - (Len(input) - n) = arrived - 0 - Len(input)
      BY <2>1, <1>1
    <2> QED
      BY <2>1, <2>2, <1>1, <1>2, <1>3 DEF Consumed
  <1>5. \A i \in 1 .. Len(input) : input[i] = PeerMsg(Consumed + i)
    <2>1. \A i \in 1 .. Len(input) : Consumed + 0 + i = Consumed + i
      BY <1>1
    <2> QED
      BY <2>1, <1>1 DEF DataInv, StreamInv
  <1>6. \A i \in 1 .. Len(ibuf') : ibuf'[i] = PeerMsg(Consumed + i)
    BY <1>1, <1>2, <1>5
  <1>7. ASSUME NEW i \in 1 .. Len(input')
        PROVE  input'[i] = PeerMsg(Consumed + Len(ibuf') + i)
    <2>1. n + i \in 1 .. Len(input) /\ Consumed + n + i = Consumed + (n + i)
      BY <1>1, <1>3
    <2> QED
      BY <2>1, <1>1, <1>2, <1>3, <1>5
  <1>8. Echoes(Len(accepted))' = Echoes(Len(accepted))
    BY DEF Echoes
  <1>9. StreamInv'
    BY <1>4, <1>6, <1>7, <1>8 DEF DataInv, StreamInv, PeerMsg
  <1>10. CloseInv'
    BY DEF DataInv, CloseInv, Written
  <1>11. EchoesInOrder'
    BY DEF DataInv, NothingReordered, EchoesInOrder, Echoes
  <1>12. SentInOrder'
    BY DEF DataInv, NothingReordered, SentInOrder, Written, WithoutClose
  <1>13. CloseIsLast'
    BY DEF DataInv, NothingReordered, CloseIsLast, Written
  <1> QED
    BY <1>2, <1>3, <1>9, <1>10, <1>11, <1>12, <1>13 DEF DataInv, NothingReordered

\* wslay takes the next message to parse, the one after those it has consumed.
LEMMA StreamNext ==
  ASSUME TypeOK, StreamInv, ibuf # <<>>
  PROVE  /\ Head(ibuf) = PeerMsg(Consumed + 1)
         /\ Head(ibuf) \in PeerFrames
         /\ Consumed + 1 \in 1 .. MaxMsgs + 1
  <1>1. /\ ibuf \in Seq(PeerFrames) /\ Len(input) \in Nat
        /\ arrived \in Nat /\ arrived <= MaxMsgs + 1 /\ MaxMsgs \in Nat /\ Consumed \in Int
    BY StreamType
  <1>2. Head(ibuf) = ibuf[1] /\ ibuf[1] \in PeerFrames /\ Len(ibuf) \in Nat \ {0}
    BY <1>1, UnconsSeq
  <1>3. ibuf[1] = PeerMsg(Consumed + 1)
    BY <1>2 DEF StreamInv
  <1>4. Consumed + 1 \in 1 .. MaxMsgs + 1
    BY <1>1, <1>2 DEF StreamInv, Consumed
  <1> QED
    BY <1>2, <1>3, <1>4

LEMMA StreamParsed ==
  ASSUME TypeOK, StreamInv, ibuf # <<>>, ibuf' = Tail(ibuf),
         UNCHANGED <<arrived, input>>
  PROVE  /\ ibuf' \in Seq(PeerFrames)
         /\ Consumed' = Consumed + 1 /\ Consumed' >= 0
         /\ \A i \in 1 .. Len(ibuf') : ibuf'[i] = PeerMsg(Consumed' + i)
         /\ \A i \in 1 .. Len(input) :
               input[i] = PeerMsg(Consumed' + Len(ibuf') + i)
  <1>1. /\ ibuf \in Seq(PeerFrames) /\ Len(input) \in Nat
        /\ arrived \in Nat /\ Consumed \in Int
    BY StreamType
  <1>2. /\ Len(ibuf) \in Nat \ {0} /\ ibuf' \in Seq(PeerFrames)
        /\ Len(ibuf') = Len(ibuf) - 1
        /\ \A i \in 1 .. Len(ibuf) - 1 : ibuf'[i] = ibuf[i + 1]
    BY <1>1, UnconsSeq
  <1>3. Consumed' = Consumed + 1
    BY <1>1, <1>2 DEF Consumed
  <1>4. ASSUME NEW i \in 1 .. Len(ibuf')
        PROVE  ibuf'[i] = PeerMsg(Consumed' + i)
    <2>1. i + 1 \in 1 .. Len(ibuf) /\ Consumed + (i + 1) = Consumed' + i
      BY <1>1, <1>2, <1>3
    <2>2. ibuf'[i] = ibuf[i + 1]
      BY <1>1, <1>2
    <2> QED
      BY <2>1, <2>2 DEF StreamInv
  <1>5. ASSUME NEW i \in 1 .. Len(input)
        PROVE  input[i] = PeerMsg(Consumed' + Len(ibuf') + i)
    <2>1. Consumed + Len(ibuf) + i = Consumed' + Len(ibuf') + i
      BY <1>1, <1>2, <1>3
    <2> QED
      BY <2>1 DEF StreamInv
  <1>6. Consumed' >= 0
    BY <1>1, <1>3 DEF StreamInv
  <1> QED
    BY <1>2, <1>3, <1>4, <1>5, <1>6

\* wslay_event_queue_msg accepts a message: an echo of the peer's next one, or a
\* message of the application's own.
LEMMA QueueAccepts ==
  ASSUME TypeOK, NothingReordered, CloseInv, writeEnabled,
         NEW m \in Data, m > 0 => Echoes(Len(accepted)) = 1 .. m - 1,
         outq' = Append(outq, m), accepted' = Append(accepted, m),
         UNCHANGED <<wire, bufs>>
  PROVE  /\ outq' \in Seq(Data) /\ accepted' \in Seq(Data)
         /\ NothingReordered'
         /\ m > 0 => Echoes(Len(accepted))' = 1 .. m
         /\ m < 0 => Echoes(Len(accepted))' = Echoes(Len(accepted))
  <1>t. /\ MaxMsgs \in Nat /\ MaxPushes \in Nat /\ Data \subseteq Int
    BY BoundsAssumption DEF Data, PeerMsgs
  <1>1. /\ accepted \in Seq(Data) /\ Len(accepted) \in Nat
        /\ outq \in Seq(Data) /\ Written \in Seq(Frames)
    BY WrittenType DEF TypeOK
  <1>2. /\ accepted' \in Seq(Data) /\ Len(accepted') = Len(accepted) + 1
        /\ \A i \in 1 .. Len(accepted) : accepted'[i] = accepted[i]
        /\ accepted'[Len(accepted) + 1] = m
    BY <1>1, AppendProperties
  <1>3. outq' \in Seq(Data)
    BY <1>1, AppendProperties
  <1>4. \A n \in 0 .. Len(accepted) :
           {accepted'[i] : i \in 1 .. n} = {accepted[i] : i \in 1 .. n}
    <2> TAKE n \in 0 .. Len(accepted)
    <2>1. \A i \in 1 .. n : accepted'[i] = accepted[i]
      BY <1>1, <1>2
    <2> QED
      BY <2>1
  <1>5. {accepted'[i] : i \in 1 .. Len(accepted')} =
           {accepted[i] : i \in 1 .. Len(accepted)} \cup {m}
    <2>1. 1 .. Len(accepted') = (1 .. Len(accepted)) \cup {Len(accepted) + 1}
      BY <1>1, <1>2
    <2> QED
      BY <2>1, <1>2
  <1>6. EchoesInOrder'
    <2> SUFFICES ASSUME NEW i \in 1 .. Len(accepted'), accepted'[i] > 0
                 PROVE  {accepted'[j] : j \in 1 .. i - 1} \cap PeerMsgs =
                           1 .. accepted'[i] - 1
      BY DEF EchoesInOrder, Echoes
    <2>1. i - 1 \in 0 .. Len(accepted)
      BY <1>1, <1>2
    <2>2. {accepted'[j] : j \in 1 .. i - 1} \cap PeerMsgs = Echoes(i - 1)
      BY <2>1, <1>4 DEF Echoes
    <2>3. CASE i <= Len(accepted)
      <3>1. i \in 1 .. Len(accepted) /\ accepted'[i] = accepted[i]
        BY <2>3, <1>1, <1>2
      <3> QED
        BY <2>2, <3>1 DEF NothingReordered, EchoesInOrder
    <2>4. CASE i > Len(accepted)
      <3>1. i = Len(accepted) + 1 /\ i - 1 = Len(accepted) /\ accepted'[i] = m
        BY <2>4, <1>1, <1>2
      <3> QED
        BY <2>2, <3>1
    <2> QED
      BY <2>3, <2>4, <1>1, <1>2
  <1>7. SentInOrder'
    <2>1. Written' = Written
      BY DEF Written
    <2>2. WithoutClose(Written) = Written
      BY <1>1, WithoutCloseNone DEF CloseInv
    <2>3. WithoutClose(Written)' = Written
      BY <2>1, <2>2 DEF WithoutClose
    <2>4. outq \in Seq(Frames) /\ m \in Frames /\ <<m>> \in Seq(Frames)
          /\ accepted \in Seq(Frames)
      <3>1. Data \subseteq Frames
        BY DEF Frames
      <3> QED
        BY <3>1, <1>1, SeqMonotonic
    <2>5. Append(outq, m) = outq \o <<m>> /\ Append(accepted, m) = accepted \o <<m>>
      BY <2>4, AppendIsConcat
    <2>6. Written \o (outq \o <<m>>) = (Written \o outq) \o <<m>>
      BY <1>1, <2>4, ConcatAssociative
    <2>7. Written \o outq = accepted
      BY <2>2 DEF NothingReordered, SentInOrder
    <2>8. WithoutClose(Written)' \o outq' = accepted'
      BY <2>3, <2>5, <2>6, <2>7
    <2> QED
      BY <2>8 DEF SentInOrder
  <1>8. CloseIsLast'
    BY DEF NothingReordered, CloseIsLast, Written
  <1>9. ASSUME m > 0
        PROVE  Echoes(Len(accepted))' = 1 .. m
    <2>1. m \in PeerMsgs
      BY <1>9, <1>t DEF Data, PeerMsgs
    <2>2. Echoes(Len(accepted))' = Echoes(Len(accepted)) \cup {m}
      BY <2>1, <1>5 DEF Echoes
    <2>3. 1 .. m = (1 .. m - 1) \cup {m}
      BY <1>9, <1>t
    <2> QED
      BY <1>9, <2>2, <2>3
  <1>10. ASSUME m < 0
         PROVE  Echoes(Len(accepted))' = Echoes(Len(accepted))
    <2>1. m \notin PeerMsgs
      BY <1>10, <1>t DEF PeerMsgs
    <2> QED
      BY <2>1, <1>5 DEF Echoes
  <1> QED
    BY <1>2, <1>3, <1>6, <1>7, <1>8, <1>9, <1>10 DEF NothingReordered

\* wslay_event_send, while no write is in progress.
LEMMA DataSent ==
  ASSUME TypeOK, DataInv, MaySend, Send, phase' = phase,
         UNCHANGED <<ibuf, readEnabled, accepted, arrived, input, wire>>
  PROVE  /\ bufs' \in Seq(Frames) /\ Len(bufs') <= MaxBufs
         /\ outq' \in Seq(Data)
         /\ closeQueued' \in BOOLEAN /\ writeEnabled' \in BOOLEAN
         /\ DataInv'
  <1>t. /\ outq \in Seq(Data) /\ MaxBufs \in Nat \ {0} /\ Len(bufs) <= MaxBufs
        /\ closeQueued \in BOOLEAN /\ writeEnabled \in BOOLEAN
    BY BoundsAssumption DEF TypeOK
  <1>1. /\ Written \in Seq(Frames) /\ Len(Written) \in Nat
        /\ wire \in Seq(Frames) /\ bufs \in Seq(Frames) /\ outq \in Seq(Frames)
        /\ Len(bufs) \in Nat /\ Len(outq) \in Nat
    BY WrittenType, LenProperties
  <1>2. /\ writeEnabled /\ ~ writing /\ Room = MaxBufs - Len(bufs)
        /\ \A i \in 1 .. Len(Written) : Written[i] # Close
        /\ WithoutClose(Written) = Written
    <2>1. writeEnabled /\ ~ writing
      BY DEF MaySend, WantWrite
    <2>2. \A i \in 1 .. Len(Written) : Written[i] # Close
      BY <2>1 DEF DataInv, CloseInv
    <2> QED
      BY <2>1, <2>2, <1>1, WithoutCloseNone DEF Room
  <1>3. Written \o outq = accepted
    BY <1>2 DEF DataInv, NothingReordered, SentInOrder
  <1>4. StreamInv'
    BY DEF DataInv, StreamInv, Consumed, Echoes
  <1>5. EchoesInOrder'
    BY DEF DataInv, NothingReordered, EchoesInOrder, Echoes
  <1>6. CASE closeQueued /\ Room > 0
    <2>1. /\ bufs' = Append(bufs, Close) /\ ~ closeQueued' /\ ~ writeEnabled'
          /\ closeQueued' \in BOOLEAN /\ writeEnabled' \in BOOLEAN
          /\ outq' = outq
      BY <1>6 DEF Send
    <2>2. Close \in Frames /\ <<Close>> \in Seq(Frames)
      BY DEF Frames
    <2>3. bufs' \in Seq(Frames) /\ Len(bufs') <= MaxBufs
      <3>1. bufs' \in Seq(Frames) /\ Len(bufs') = Len(bufs) + 1
        BY <2>1, <2>2, <1>1, AppendProperties
      <3> QED
        BY <3>1, <1>t, <1>1, <1>2, <1>6
    <2>4. Written' = Append(Written, Close)
      <3>1. Written' = wire \o (bufs \o <<Close>>)
        BY <2>1, <2>2, <1>1, AppendIsConcat DEF Written
      <3>2. wire \o (bufs \o <<Close>>) = Written \o <<Close>>
        BY <2>2, <1>1, ConcatAssociative DEF Written
      <3>3. Written \o <<Close>> = Append(Written, Close)
        BY <2>2, <1>1, AppendIsConcat
      <3> QED
        BY <3>1, <3>2, <3>3
    <2>5. /\ Written' # <<>> /\ Len(Written') = Len(Written) + 1
          /\ \A i \in 1 .. Len(Written) : Written'[i] = Written[i]
          /\ Written'[Len(Written) + 1] = Close
      <3> DEFINE w == Append(Written, Close)
      <3>1. /\ w # <<>> /\ Len(w) = Len(Written) + 1
            /\ \A i \in 1 .. Len(Written) : w[i] = Written[i]
            /\ w[Len(Written) + 1] = Close
        BY <2>2, <1>1, AppendProperties
      <3> HIDE DEF w
      <3>2. Written' = w
        BY <2>4 DEF w
      <3> QED
        BY <3>1, <3>2
    <2>6. CloseInv'
      <3>1. ~ readEnabled
        BY <1>6 DEF DataInv, CloseInv
      <3>2. Written' # <<>> /\ Written'[Len(Written')] = Close
        BY <2>5
      <3> QED
        BY <2>1, <3>1, <3>2, <2>5 DEF CloseInv
    <2>7. WithoutClose(Written)' = Written
      <3>1. WithoutClose(Append(Written, Close)) = Written
        BY <1>1, WithoutCloseLast
      <3> QED
        BY <2>4, <3>1 DEF WithoutClose
    <2>8. SentInOrder'
      BY <2>1, <2>7, <1>3 DEF SentInOrder
    <2>9. CloseIsLast'
      <3> SUFFICES ASSUME NEW i \in 1 .. Len(Written'), Written'[i] = Close
                   PROVE  i = Len(Written')
        BY DEF CloseIsLast
      <3>1. CASE i <= Len(Written)
        BY <3>1, <2>5, <1>1, <1>2
      <3> QED
        BY <3>1, <2>5, <1>1
    <2> QED
      BY <2>1, <2>3, <2>6, <2>8, <2>9, <1>t, <1>4, <1>5 DEF DataInv, NothingReordered
  <1>7. CASE ~ (closeQueued /\ Room > 0)
    <2> DEFINE n == IF Room < Len(outq) THEN Room ELSE Len(outq)
               p == SubSeq(outq, 1, n)
               q == SubSeq(outq, n + 1, Len(outq))
    <2>1. /\ bufs' = bufs \o p /\ outq' = q
          /\ UNCHANGED <<closeQueued, writeEnabled>>
      BY <1>7 DEF Send
    <2>2. n \in 0 .. Len(outq) /\ n <= MaxBufs - Len(bufs)
      BY <1>t, <1>1, <1>2
    <2> HIDE DEF n
    <2>3. /\ p \in Seq(Data) /\ Len(p) = n /\ q \in Seq(Data)
          /\ \A i \in 1 .. n : p[i] = outq[i]
      BY <1>t, <2>2, TakeSeq, DropSeq
    <2>4. p \in Seq(Frames) /\ q \in Seq(Frames)
      <3>1. Data \subseteq Frames
        BY DEF Frames
      <3> QED
        BY <2>3, <3>1, SeqMonotonic
    <2>5. p \o q = outq
      <3>1. /\ 1 \in 1 .. Len(outq) + 1 /\ n \in 1 - 1 .. Len(outq)
            /\ Len(outq) \in n .. Len(outq)
        BY <2>2, <1>1
      <3>2. p \o q = SubSeq(outq, 1, Len(outq))
        BY <3>1, <1>t, ConcatAdjacentSubSeq
      <3> QED
        BY <3>2, <1>t, SubSeqFull
    <2> HIDE DEF p, q
    <2>6. bufs' \in Seq(Frames) /\ Len(bufs') <= MaxBufs
      <3>1. bufs' \in Seq(Frames) /\ Len(bufs') = Len(bufs) + Len(p)
        BY <2>1, <2>4, <1>1, ConcatProperties
      <3> QED
        BY <3>1, <2>2, <2>3, <1>t, <1>1
    <2>7. Written' = Written \o p
      <3>1. Written' = wire \o (bufs \o p)
        BY <2>1 DEF Written
      <3>2. (wire \o bufs) \o p = wire \o (bufs \o p)
        BY <2>4, <1>1, ConcatAssociative
      <3> QED
        BY <3>1, <3>2 DEF Written
    <2>8. /\ Written' \in Seq(Frames) /\ Len(Written') = Len(Written) + Len(p)
          /\ \A i \in 1 .. Len(Written) + Len(p) : Written'[i] =
                IF i <= Len(Written) THEN Written[i] ELSE p[i - Len(Written)]
      BY <2>4, <2>7, <1>1, ConcatProperties
    <2>9. \A i \in 1 .. Len(Written') : Written'[i] # Close
      <3> TAKE i \in 1 .. Len(Written')
      <3>a. Len(Written) \in Nat /\ Len(p) \in Nat
        BY <2>2, <2>3, <1>1
      <3>0. /\ Len(Written) \in Nat /\ Len(p) \in Nat
            /\ i \in Nat /\ i \in 1 .. Len(Written) + Len(p)
        BY <3>a, <2>8
      <3>1. CASE i <= Len(Written)
        <4>1. i \in 1 .. Len(Written)
          BY <3>0, <3>1
        <4>2. Written'[i] = Written[i]
          BY <3>0, <3>1, <2>8
        <4> QED
          BY <4>1, <4>2, <1>2
      <3>2. CASE i > Len(Written)
        <4>0. i - Len(Written) \in 1 .. Len(p) /\ ~ (i <= Len(Written))
          BY <3>0, <3>2
        <4>1. Written'[i] = p[i - Len(Written)] /\ i - Len(Written) \in 1 .. Len(p)
          BY <3>0, <4>0, <2>8
        <4>2. Written'[i] \in Data
          BY <4>1, <2>3, ElementOfSeq
        <4>3. Close \notin Data
          BY BoundsAssumption DEF Data, PeerMsgs, Close
        <4> QED
          BY <4>2, <4>3
      <3> QED
        BY <3>0, <3>1, <3>2
    <2>10. CloseInv'
      BY <2>1, <2>9, <1>2 DEF DataInv, CloseInv
    <2>11. WithoutClose(Written)' = Written'
      <3>1. WithoutClose(Written \o p) = Written \o p
        BY <2>7, <2>8, <2>9, WithoutCloseNone
      <3> QED
        BY <3>1, <2>7 DEF WithoutClose
    <2>12. SentInOrder'
      <3>0. Written \in Seq(Frames) /\ p \in Seq(Frames) /\ q \in Seq(Frames)
        BY <2>4, <1>1
      <3>1. (Written \o p) \o q = Written \o (p \o q)
        BY ONLY <3>0, ConcatAssociative
      <3>2. WithoutClose(Written)' \o outq' = accepted'
        BY <3>1, <2>1, <2>5, <2>7, <2>11, <1>3
      <3> QED
        BY <3>2 DEF SentInOrder
    <2>13. CloseIsLast'
      BY <2>9 DEF CloseIsLast
    <2> QED
      BY <2>1, <2>3, <2>6, <2>10, <2>12, <2>13, <1>t, <1>4, <1>5
      DEF DataInv, NothingReordered, q
  <1> QED
    BY <1>6, <1>7

-------------------------------------------------------------------------------
(***************************************************************************)
(* What the control of the code preserves: the phases and the calls.        *)
(***************************************************************************)

\* A step after which a call is in progress on an open connection.
LEMMA InCall ==
  ASSUME ControlInv, phase # "freed", phase' = "open",
         stack' # <<>>, WellNested(stack'),
         Len(stack') = 1 /\ readEnabled' => ibuf' = <<>>,
         stack'[1] = "finish" => /\ readEnabled' => input' = <<>>
                                 /\ MaySend' => bufs' # <<>>,
         writing' => bufs' # <<>>,
         Len(stack') > 1 /\ ~ readEnabled' => closeQueued' \/ bufs' # <<>>,
         UNCHANGED <<freedBy, errors, touched>>
  PROVE  ControlInv'
  <1>1. EarlyInv' /\ NeverStuck'
    BY DEF EarlyInv, NeverStuck, Idle
  <1>2. CallInv'
    BY DEF CallInv, WellNested
  <1>3. ~ touched
    BY DEF ControlInv, FreedInv
  <1>4. FreedInv' /\ HandshakeEndsOutside'
    BY <1>3 DEF ControlInv, FreedInv, HandshakeEndsOutside
  <1>5. LoopInv'
    BY DEF LoopInv
  <1> QED
    BY <1>1, <1>2, <1>4, <1>5 DEF ControlInv

\* A step that frees the connection.
Frees ==
  /\ phase # "freed" /\ phase' = "freed"
  /\ freedBy' \in {"event", "nested", "callback", "generator", "early", "app"}
  /\ object' \in {"none", "live", "deleted"}
  /\ stack' \in Seq(Calls) /\ WellNested(stack')
  /\ stack' # <<>> => freedBy' \in {"nested", "callback"}
  /\ freedBy' = "nested" => errors' > 0
  /\ errors' \in 0 .. MaxErrors
  /\ writing' \in BOOLEAN /\ (writing' => bufs # <<>>)
  /\ UNCHANGED <<wslayVars, arrived, input, bufs, wire, reading, pushes, badVars>>

LEMMA FreedStep ==
  ASSUME Inv, Frees
  PROVE  Inv'
  <1> USE DEF Frees
  <1>1. TypeOK'
    BY DEF Inv, TypeOK, Phases, wslayVars, badVars
  <1>2. EarlyInv' /\ NeverStuck'
    BY DEF EarlyInv, NeverStuck, Idle
  <1>3. CallInv'
    BY DEF CallInv, WellNested
  <1>4. ~ touched
    BY DEF Inv, ControlInv, FreedInv
  <1>5. FreedInv' /\ HandshakeEndsOutside'
    BY <1>4 DEF FreedInv, HandshakeEndsOutside, badVars
  <1>6. LoopInv'
    BY DEF LoopInv
  <1>7. DataInv'
    BY DataFrame DEF Inv, wslayVars
  <1> QED
    BY <1>1, <1>2, <1>3, <1>5, <1>6, <1>7 DEF Inv, ControlInv

LEMMA ErrorCounts ==
  ASSUME TypeOK, Error
  PROVE  errors' \in 0 .. MaxErrors /\ errors' > 0
  BY BoundsAssumption DEF TypeOK, Error

LEMMA InitInv == Init => Inv
  <1> SUFFICES ASSUME Init PROVE Inv
    OBVIOUS
  <1>0. /\ <<>> \in Seq(Calls) /\ <<>> \in Seq(PeerMsgs \cup {Close})
        /\ <<>> \in Seq(Data) /\ <<>> \in Seq(Data \cup {Close})
        /\ Len(<<>>) = 0
    BY EmptySeq
  <1>1. TypeOK
    <2>1. /\ arrived \in 0 .. MaxMsgs + 1 /\ pushes \in 0 .. MaxPushes
          /\ errors \in 0 .. MaxErrors
      BY BoundsAssumption DEF Init
    <2>2. Len(bufs) <= MaxBufs
      BY <1>0, BoundsAssumption DEF Init
    <2>3. /\ phase \in Phases /\ object \in {"none", "live", "deleted"}
          /\ freedBy \in {"none", "event", "nested", "callback", "generator", "early", "app"}
      BY DEF Init, Phases
    <2>4. /\ closeQueued \in BOOLEAN /\ readEnabled \in BOOLEAN
          /\ writeEnabled \in BOOLEAN /\ writing \in BOOLEAN /\ reading \in BOOLEAN
          /\ touched \in BOOLEAN /\ late \in BOOLEAN
      BY DEF Init
    <2>5. /\ stack \in Seq(Calls)
          /\ input \in Seq(PeerMsgs \cup {Close}) /\ ibuf \in Seq(PeerMsgs \cup {Close})
          /\ outq \in Seq(Data) /\ accepted \in Seq(Data)
          /\ bufs \in Seq(Data \cup {Close}) /\ wire \in Seq(Data \cup {Close})
      BY <1>0, Zenon DEF Init
    <2> QED
      BY <2>1, <2>2, <2>3, <2>4, <2>5 DEF TypeOK
  <1>2. ControlInv
    BY <1>0 DEF Init, ControlInv, EarlyInv, CallInv, WellNested, FreedInv, LoopInv,
                NeverStuck, Idle, HandshakeEndsOutside
  <1>3. Written = <<>> /\ Len(Written) = 0
    BY <1>0, ConcatEmptySeq DEF Init, Written
  <1>4. CloseInv
    BY <1>3 DEF Init, CloseInv
  <1>5. StreamInv
    BY <1>0 DEF Init, StreamInv, Consumed
  <1>6. NothingReordered
    <2>1. WithoutClose(Written) \o outq = accepted
      BY <1>3, <1>0, ConcatEmptySeq DEF Init, WithoutClose
    <2> QED
      BY <1>0, <1>3, <2>1 DEF Init, NothingReordered, EchoesInOrder, SentInOrder,
                              CloseIsLast
  <1> QED
    BY <1>1, <1>2, <1>4, <1>5, <1>6 DEF Inv, DataInv

-------------------------------------------------------------------------------
(***************************************************************************)
(* The steps.                                                               *)
(***************************************************************************)

\* The steps before the connection is open, and those after its end.
LEMMA OutsideInv ==
  ASSUME Inv,
         \/ \E req \in Requests : Request(req)
         \/ Upgrade \/ UpgradeFreed \/ CompleteFreed \/ UseFreed \/ Done
  PROVE  Inv'
  <1> USE DEF connVars, wslayVars, sockVars, appVars, badVars
  <1>1. ASSUME NEW req \in Requests, Request(req)
        PROVE  Inv'
    <2>1. TypeOK'
      BY <1>1 DEF Request, Inv, TypeOK, Phases
    <2>2. ControlInv'
      BY <1>1 DEF Request, Inv, ControlInv, EarlyInv, CallInv, WellNested, FreedInv,
                  LoopInv, NeverStuck, Idle, HandshakeEndsOutside
    <2>3. DataInv'
      BY <1>1, DataFrame DEF Request, Inv
    <2> QED
      BY <2>1, <2>2, <2>3 DEF Inv
  <1>2. CASE Upgrade
    <2>1. TypeOK'
      BY <1>2 DEF Upgrade, Inv, TypeOK, Phases
    <2>2. ControlInv'
      BY <1>2 DEF Upgrade, Inv, ControlInv, EarlyInv, CallInv, WellNested, FreedInv,
                  LoopInv, NeverStuck, Idle, HandshakeEndsOutside
    <2>3. DataInv'
      BY <1>2, DataFrame DEF Upgrade, Inv
    <2> QED
      BY <2>1, <2>2, <2>3 DEF Inv
  <1>3. CASE CompleteFreed
    <2>1. TypeOK'
      BY <1>3 DEF CompleteFreed, Inv, TypeOK
    <2>2. ControlInv'
      BY <1>3 DEF CompleteFreed, Inv, ControlInv, EarlyInv, CallInv, WellNested,
                  FreedInv, LoopInv, NeverStuck, Idle, HandshakeEndsOutside
    <2>3. DataInv'
      BY <1>3, DataFrame DEF CompleteFreed, Inv
    <2> QED
      BY <2>1, <2>2, <2>3 DEF Inv
  <1>4. CASE UseFreed
    <2>1. stack' \in Seq(Calls) /\ WellNested(stack')
      BY <1>4, NestOne DEF UseFreed, WellNested
    <2>2. late' \in BOOLEAN
      BY <1>4 DEF UseFreed, Inv, TypeOK
    <2>3. TypeOK'
      BY <1>4, <2>1, <2>2 DEF UseFreed, Inv, TypeOK
    <2>4. CallInv'
      BY <2>1 DEF CallInv, WellNested
    <2>5. ControlInv'
      BY <1>4, <2>4 DEF UseFreed, Inv, ControlInv, EarlyInv, FreedInv, LoopInv,
                        NeverStuck, Idle, HandshakeEndsOutside
    <2>6. DataInv'
      BY <1>4, DataFrame DEF UseFreed, Inv
    <2> QED
      BY <2>3, <2>5, <2>6 DEF Inv
  <1>5. CASE Done
    <2>1. TypeOK'
      BY <1>5 DEF Done, vars, Inv, TypeOK
    <2>2. ControlInv'
      BY <1>5 DEF Done, vars, Inv, ControlInv, EarlyInv, CallInv, WellNested, FreedInv,
                  LoopInv, NeverStuck, Idle, WantWrite, MaySend, HandshakeEndsOutside
    <2>3. DataInv'
      BY <1>5, DataFrame DEF Done, vars, Inv
    <2> QED
      BY <2>1, <2>2, <2>3 DEF Inv
  <1>6. CASE UpgradeFreed
    <2>1. TypeOK'
      BY <1>6 DEF UpgradeFreed, Inv, TypeOK
    <2>2. ControlInv'
      BY <1>6 DEF UpgradeFreed, Inv, ControlInv, EarlyInv, CallInv, WellNested,
                  FreedInv, LoopInv, NeverStuck, Idle, HandshakeEndsOutside
    <2>3. DataInv'
      BY <1>6, DataFrame DEF UpgradeFreed, Inv
    <2> QED
      BY <2>1, <2>2, <2>3 DEF Inv
  <1> QED
    BY <1>1, <1>2, <1>3, <1>4, <1>5, <1>6

\* The steps that free the connection from outside a call of the loop's making,
\* and the errors inside one.
LEMMA ClosingInv ==
  ASSUME Inv,
         \/ CompleteError \/ OnRecvError \/ OnWriteError
         \/ Proceed_SendError \/ Recv_Error \/ AppClose
  PROVE  Inv'
  <1> USE DEF CloseFrame, OnClose, MessageNull, WebsocketClose, sockVars, appVars
  <1> SUFFICES Frees
    BY FreedStep
  <1>0. /\ TypeOK /\ ControlInv
        /\ stack \in Seq(Calls) /\ WellNested(stack)
        /\ writing \in BOOLEAN /\ (writing => bufs # <<>>)
        /\ errors \in 0 .. MaxErrors /\ object \in {"none", "live", "deleted"}
    BY DEF Inv, TypeOK, ControlInv, CallInv, LoopInv
  <1>1. CASE CompleteError
    <2>1. errors' \in 0 .. MaxErrors /\ stack = <<>>
      BY <1>0, <1>1, ErrorCounts DEF CompleteError, ControlInv, EarlyInv
    <2> QED
      BY <1>0, <1>1, <2>1 DEF Frees, CompleteError
  <1>2. CASE OnRecvError
    <2>1. errors' \in 0 .. MaxErrors /\ errors' > 0
      BY <1>0, <1>2, ErrorCounts DEF OnRecvError
    <2> QED
      BY <1>0, <1>2, <2>1, NestOne DEF Frees, OnRecvError, Idle
  <1>3. CASE OnWriteError
    <2>1. errors' \in 0 .. MaxErrors /\ errors' > 0
      BY <1>0, <1>3, ErrorCounts DEF OnWriteError
    <2> QED
      BY <1>0, <1>3, <2>1, NestOne DEF Frees, OnWriteError, Idle
  <1>4. CASE Proceed_SendError
    <2>1. errors' \in 0 .. MaxErrors /\ errors' > 0
      BY <1>0, <1>4, ErrorCounts DEF Proceed_SendError
    <2>2. stack # <<>> /\ stack[1] # "recv"
      BY <1>0, <1>4, UnconsSeq DEF Proceed_SendError
    <2>3. Tail(stack) \in Seq(Calls) /\ WellNested(Tail(stack))
      BY <1>0, <2>2, NestPop
    <2> QED
      BY <1>0, <1>4, <2>1, <2>3 DEF Frees, Proceed_SendError
  <1>5. CASE Recv_Error
    <2>1. errors' \in 0 .. MaxErrors /\ errors' > 0
      BY <1>0, <1>5, ErrorCounts DEF Recv_Error
    <2>2. stack # <<>> /\ stack[1] = "recv"
      BY <1>0, <1>5, UnconsSeq DEF Recv_Error, InRecv
    <2>3. SubSeq(stack, 3, Len(stack)) \in Seq(Calls)
          /\ WellNested(SubSeq(stack, 3, Len(stack)))
      BY <1>0, <2>2, NestReturn
    <2> QED
      BY <1>0, <1>5, <2>1, <2>3 DEF Frees, Recv_Error, InRecv
  <1>6. CASE AppClose
    <2>1. stack = <<>> /\ phase # "freed"
      BY <1>0, <1>6 DEF AppClose, Idle, ControlInv, EarlyInv
    <2> QED
      BY <1>0, <1>6, <2>1 DEF Frees, AppClose
  <1> QED
    BY <1>1, <1>2, <1>3, <1>4, <1>5, <1>6

\* The loop calls on_websocket_complete, on_recv or on_write_complete.
LEMMA EventInv ==
  ASSUME Inv, Complete \/ OnRecv \/ OnWriteComplete
  PROVE  Inv'
  <1> USE DEF connVars, wslayVars, sockVars, appVars, badVars
  <1>0. TypeOK /\ ControlInv /\ DataInv
    BY DEF Inv
  <1>c. ASSUME phase \in {"upgraded", "open"}, phase' = "open", stack' = <<"proceed">>,
               readEnabled' => ibuf' = <<>>, writing' => bufs' # <<>>,
               UNCHANGED <<freedBy, errors, touched>>
        PROVE  stack' \in Seq(Calls) /\ ControlInv'
    <2>1. /\ stack' \in Seq(Calls) /\ stack' # <<>> /\ WellNested(stack')
          /\ stack'[1] = "proceed" /\ ~ (Len(stack') > 1)
      BY <1>c, NestOne
    <2> QED
      BY <1>0, <1>c, <2>1, InCall
  <1>1. CASE Complete
    <2>1. PICK k \in 0 .. MaxMsgs + 1 : input' = Arriving(k) /\ arrived' = k
      BY <1>1 DEF Complete
    <2>2. /\ arrived = 0 /\ input = <<>> /\ ibuf = <<>> /\ accepted = <<>>
          /\ Len(accepted) = 0 /\ Len(input) = 0 /\ Len(ibuf) = 0 /\ ~ writing
      BY <1>0, <1>1, EmptySeq DEF Complete, ControlInv, EarlyInv
    <2>3. k \in 0 .. MaxMsgs + 1 - arrived /\ arrived' = arrived + k
      BY <2>1, <2>2, BoundsAssumption
    <2>4. input' = input \o Arriving(k)
      <3>1. Arriving(k) \in Seq(PeerFrames)
        BY BoundsAssumption, <2>2
        DEF Arriving, PeerFrames, PeerMsgs, Close
      <3> QED
        BY <3>1, <2>1, <2>2, ConcatEmptySeq
    <2>5. Echoes(Len(accepted)) = 1 .. Consumed
      BY <2>2 DEF Echoes, Consumed
    <2>6. input' \in Seq(PeerFrames) /\ arrived' \in 0 .. MaxMsgs + 1 /\ DataInv'
      <3>1. UNCHANGED <<ibuf, outq, closeQueued, readEnabled, writeEnabled, accepted,
                        bufs, wire>>
        BY <1>1 DEF Complete
      <3> QED
        BY <1>0, <2>3, <2>4, <2>5, <3>1, DataArrives
    <2>7. stack' \in Seq(Calls) /\ ControlInv'
      BY <1>1, <1>c, <2>2 DEF Complete
    <2>8. TypeOK'
      BY <1>0, <1>1, <2>6, <2>7 DEF Complete, TypeOK, Phases, PeerFrames
    <2> QED
      BY <2>6, <2>7, <2>8 DEF Inv
  <1>2. CASE OnRecv
    <2>1. PICK k \in 1 .. MaxMsgs + 1 - arrived :
             input' = input \o Arriving(k) /\ arrived' = arrived + k
      BY <1>2 DEF OnRecv
    <2>2. k \in 0 .. MaxMsgs + 1 - arrived
      OBVIOUS
    <2>3. /\ phase = "open" /\ (readEnabled => ibuf = <<>>)
          /\ (writing => bufs # <<>>)
      BY <1>0, <1>2 DEF OnRecv, Idle, ControlInv, NeverStuck, LoopInv
    <2>4. input' \in Seq(PeerFrames) /\ arrived' \in 0 .. MaxMsgs + 1 /\ DataInv'
      <3>1. UNCHANGED <<ibuf, outq, closeQueued, readEnabled, writeEnabled, accepted,
                        bufs, wire>>
        BY <1>2 DEF OnRecv
      <3> QED
        BY <1>0, <2>1, <2>2, <2>3, <3>1, DataArrives
    <2>5. stack' \in Seq(Calls) /\ ControlInv'
      BY <1>2, <1>c, <2>3 DEF OnRecv
    <2>6. TypeOK'
      BY <1>0, <1>2, <2>4, <2>5 DEF OnRecv, TypeOK, PeerFrames
    <2> QED
      BY <2>4, <2>5, <2>6 DEF Inv
  <1>3. CASE OnWriteComplete
    <2>1. wire' \in Seq(Frames) /\ bufs' = <<>> /\ DataInv'
      BY <1>0, <1>3, DataWritten
    <2>2. phase = "open" /\ (readEnabled => ibuf = <<>>)
      BY <1>0, <1>3 DEF OnWriteComplete, Idle, ControlInv, NeverStuck
    <2>3. stack' \in Seq(Calls) /\ ControlInv'
      BY <1>3, <1>c, <2>2 DEF OnWriteComplete
    <2>4. bufs' \in Seq(Data \cup {Close}) /\ Len(bufs') <= MaxBufs
      BY <2>1, EmptySeq, BoundsAssumption
    <2>5. TypeOK'
      BY <1>0, <1>3, <2>1, <2>3, <2>4 DEF OnWriteComplete, TypeOK, Frames
    <2> QED
      BY <2>1, <2>3, <2>5 DEF Inv
  <1> QED
    BY <1>1, <1>2, <1>3

\* The application sends from outside the callbacks.
LEMMA AppSendInv ==
  ASSUME Inv, AppSend
  PROVE  Inv'
  <1> USE DEF sockVars, badVars
  <1>0. TypeOK /\ ControlInv /\ DataInv
    BY DEF Inv
  <1>1. /\ pushes' = pushes + 1 /\ pushes' \in 1 .. MaxPushes
        /\ UNCHANGED <<object, freedBy, ibuf, closeQueued, readEnabled, writeEnabled,
                       arrived, input, bufs, writing, reading, wire, errors,
                       touched, late>>
    BY <1>0, BoundsAssumption DEF AppSend, TypeOK
  <1> DEFINE m == 0 - pushes'
  <1>2. m \in Data /\ m < 0 /\ ~ (m > 0)
    BY <1>1, BoundsAssumption DEF Data
  <1> HIDE DEF m
  <1>3. ASSUME Queue(m, closeQueued), phase \in {"upgraded", "open"},
               phase' \in {"open", "crashed"}, phase' = "open" => phase = "open"
        PROVE  outq' \in Seq(Data) /\ accepted' \in Seq(Data) /\ DataInv'
    <2>1. CASE closeQueued \/ ~ writeEnabled
      <3>1. UNCHANGED <<outq, accepted>>
        BY <1>3, <2>1 DEF Queue
      <3> QED
        BY <1>0, <1>1, <1>3, <3>1, DataFrame DEF TypeOK
    <2>2. CASE ~ (closeQueued \/ ~ writeEnabled)
      <3>1. writeEnabled /\ outq' = Append(outq, m) /\ accepted' = Append(accepted, m)
        BY <1>3, <2>2 DEF Queue
      <3>2. /\ outq' \in Seq(Data) /\ accepted' \in Seq(Data) /\ NothingReordered'
            /\ Echoes(Len(accepted))' = Echoes(Len(accepted))
        BY <1>0, <1>1, <1>2, <3>1, QueueAccepts DEF DataInv
      <3>3. CloseInv'
        BY <1>0, <1>1 DEF DataInv, CloseInv, Written
      <3>4. StreamInv'
        BY <1>0, <1>1, <1>3, <3>2 DEF DataInv, StreamInv, Consumed
      <3> QED
        BY <3>2, <3>3, <3>4 DEF DataInv
    <2> QED
      BY <2>1, <2>2
  <1>4. CASE phase = "generator" /\ UNCHANGED <<phase, outq, accepted, stack>>
    <2>1. DataInv'
      BY <1>0, <1>1, <1>4, DataFrame
    <2>2. TypeOK'
      BY <1>0, <1>1, <1>4 DEF TypeOK
    <2>3. ControlInv'
      BY <1>0, <1>1, <1>4 DEF ControlInv, EarlyInv, CallInv, WellNested, FreedInv,
                  LoopInv, NeverStuck, Idle, HandshakeEndsOutside
    <2> QED
      BY <2>1, <2>2, <2>3 DEF Inv
  <1>5. CASE phase = "upgraded" /\ Queue(m, closeQueued) /\ phase' = "crashed"
             /\ UNCHANGED stack
    <2>1. outq' \in Seq(Data) /\ accepted' \in Seq(Data) /\ DataInv'
      BY <1>3, <1>5
    <2>2. TypeOK'
      BY <1>0, <1>1, <1>5, <2>1 DEF TypeOK, Phases
    <2>3. ControlInv'
      BY <1>0, <1>1, <1>5 DEF ControlInv, EarlyInv, CallInv, WellNested, FreedInv,
                  LoopInv, NeverStuck, Idle, HandshakeEndsOutside
    <2> QED
      BY <2>1, <2>2, <2>3 DEF Inv
  <1>6. CASE phase = "open" /\ Queue(m, closeQueued) /\ stack' = <<"proceed">>
             /\ UNCHANGED phase
    <2>1. outq' \in Seq(Data) /\ accepted' \in Seq(Data) /\ DataInv'
      BY <1>3, <1>6
    <2>2. /\ stack' \in Seq(Calls) /\ stack' # <<>> /\ WellNested(stack')
          /\ stack'[1] = "proceed"
      BY <1>6, NestOne
    <2>3. (readEnabled => ibuf = <<>>) /\ (writing => bufs # <<>>)
      BY <1>0, <1>6 DEF AppSend, ControlInv, NeverStuck, LoopInv, Idle
    <2>4. ControlInv'
      BY <1>0, <1>1, <1>6, <2>2, <2>3, InCall
    <2>5. TypeOK'
      BY <1>0, <1>1, <1>6, <2>1, <2>2 DEF TypeOK
    <2> QED
      BY <2>1, <2>4, <2>5 DEF Inv
  <1> QED
    BY <1>4, <1>5, <1>6 DEF AppSend, m

\* wslay_event_send puts a close frame into the buffers or leaves it queued.
LEMMA SendKeeps ==
  ASSUME TypeOK, Send, closeQueued \/ bufs # <<>>
  PROVE  closeQueued' \/ bufs' # <<>>
  <1>1. bufs \in Seq(Frames) /\ outq \in Seq(Frames) /\ Len(bufs) \in Nat
    BY WrittenType, LenProperties
  <1>2. CASE closeQueued /\ Room > 0
    <2>1. bufs' = Append(bufs, Close)
      BY <1>2 DEF Send
    <2>2. Append(bufs, Close) # <<>>
      BY <1>1, AppendProperties DEF Frames
    <2> QED
      BY <2>1, <2>2
  <1>3. CASE ~ (closeQueued /\ Room > 0)
    <2> DEFINE n == IF Room < Len(outq) THEN Room ELSE Len(outq)
               p == SubSeq(outq, 1, n)
    <2>1. bufs' = bufs \o p /\ closeQueued' = closeQueued
      BY <1>3 DEF Send
    <2>2. CASE closeQueued
      BY <2>1, <2>2
    <2>3. CASE bufs # <<>>
      <3>1. n \in 0 .. Len(outq)
        BY <1>1, LenProperties, BoundsAssumption DEF Room, TypeOK
      <3> HIDE DEF n
      <3>2. p \in Seq(Frames)
        BY <1>1, <3>1, TakeSeq
      <3> HIDE DEF p
      <3>3. Len(bufs \o p) = Len(bufs) + Len(p) /\ bufs \o p \in Seq(Frames)
            /\ Len(p) \in Nat /\ Len(bufs) # 0
        BY <1>1, <2>3, <3>2, ConcatProperties, LenProperties, EmptySeq
      <3>4. Len(bufs \o p) # 0
        BY <1>1, <3>3
      <3> QED
        BY <2>1, <3>4, EmptySeq
    <2> QED
      BY <2>2, <2>3
  <1> QED
    BY <1>2, <1>3

\* The loop of h2o_websocket_proceed, and what is behind it.
LEMMA ProceedInv ==
  ASSUME Inv, Proceed_Loop \/ Proceed_Finish
  PROVE  Inv'
  <1> USE DEF connVars, wslayVars, sockVars, appVars, badVars
  <1>0. /\ TypeOK /\ ControlInv /\ DataInv
        /\ stack \in Seq(Calls) /\ WellNested(stack)
        /\ writing \in BOOLEAN /\ (writing => bufs # <<>>)
    BY DEF Inv, TypeOK, ControlInv, CallInv, LoopInv
  <1>1. CASE Proceed_Loop
    <2>1. /\ phase = "open" /\ phase' = "open" /\ stack # <<>> /\ stack[1] = "proceed"
          /\ UNCHANGED <<ibuf, readEnabled, accepted, arrived, input, writing,
                         reading, wire, freedBy, errors, touched>>
      BY <1>0, <1>1, UnconsSeq DEF Proceed_Loop
    <2>a. Len(stack) > 1 /\ ~ readEnabled => closeQueued \/ bufs # <<>>
      BY <1>0, <2>1 DEF ControlInv, LoopInv
    <2>2. CASE MaySend /\ Send
      <3>1. /\ bufs' \in Seq(Frames) /\ Len(bufs') <= MaxBufs /\ outq' \in Seq(Data)
            /\ closeQueued' \in BOOLEAN /\ writeEnabled' \in BOOLEAN
            /\ DataInv'
        BY <1>0, <2>1, <2>2, DataSent
      <3>2. ~ writing /\ ~ writing'
        BY <2>1, <2>2 DEF MaySend
      <3>3. ~ Handled(MaySend) => bufs' # <<>>
        <4> SUFFICES ASSUME ~ (Len(bufs') < MaxBufs) PROVE bufs' # <<>>
          BY <2>2 DEF Handled
        <4>1. Len(bufs') \in Nat /\ MaxBufs \in Nat \ {0}
          BY <3>1, LenProperties, BoundsAssumption
        <4> QED
          BY <4>1, EmptySeq
      <3>a. Len(stack) > 1 /\ ~ readEnabled => closeQueued' \/ bufs' # <<>>
        BY <1>0, <2>2, <2>a, SendKeeps
      <3>4. CASE input # <<>> /\ readEnabled
        <4>1. stack' = <<"recv", "waiting">> \o Tail(stack)
          BY <1>1, <3>4 DEF Proceed_Loop
        <4>2. /\ stack' \in Seq(Calls) /\ stack' # <<>> /\ WellNested(stack')
              /\ stack'[1] = "recv" /\ Len(stack') # 1
          BY <1>0, <2>1, <4>1, NestCall
        <4>3. ControlInv'
          BY <1>0, <2>1, <3>2, <3>4, <4>2, InCall
        <4>4. TypeOK'
          BY <1>0, <1>1, <2>1, <3>1, <4>2 DEF Proceed_Loop, TypeOK, Frames
        <4> QED
          BY <3>1, <4>3, <4>4 DEF Inv
      <3>5. CASE ~ (input # <<>> /\ readEnabled) /\ Handled(MaySend)
        <4>1. stack' = stack
          BY <1>1, <3>5 DEF Proceed_Loop
        <4>2. Len(stack) = 1 /\ readEnabled => ibuf = <<>>
          BY <1>0, <2>1 DEF ControlInv, LoopInv
        <4>3. ControlInv'
          BY <1>0, <2>1, <3>2, <3>a, <4>1, <4>2, InCall
        <4>4. TypeOK'
          BY <1>0, <1>1, <2>1, <3>1, <4>1 DEF Proceed_Loop, TypeOK, Frames
        <4> QED
          BY <3>1, <4>3, <4>4 DEF Inv
      <3>6. CASE ~ (input # <<>> /\ readEnabled) /\ ~ Handled(MaySend)
        <4>1. stack' = <<"finish">> \o Tail(stack)
          BY <1>1, <3>6 DEF Proceed_Loop
        <4>2. /\ stack' \in Seq(Calls) /\ stack' # <<>> /\ WellNested(stack')
              /\ stack'[1] = "finish" /\ Len(stack') = Len(stack)
          BY <1>0, <2>1, <4>1, NestReplace
        <4>3. Len(stack) = 1 /\ readEnabled => ibuf = <<>>
          BY <1>0, <2>1 DEF ControlInv, LoopInv
        <4>4. ControlInv'
          BY <1>0, <2>1, <3>2, <3>3, <3>6, <3>a, <4>2, <4>3, InCall
        <4>5. TypeOK'
          BY <1>0, <1>1, <2>1, <3>1, <4>2 DEF Proceed_Loop, TypeOK, Frames
        <4> QED
          BY <3>1, <4>4, <4>5 DEF Inv
      <3> QED
        BY <3>4, <3>5, <3>6
    <2>3. CASE ~ MaySend /\ UNCHANGED <<bufs, outq, closeQueued, writeEnabled>>
      <3>1. DataInv'
        BY <1>0, <2>1, <2>3, DataFrame
      <3>2. ~ Handled(MaySend) /\ ~ MaySend'
        BY <2>1, <2>3 DEF Handled, MaySend, WantWrite
      <3>3. CASE input # <<>> /\ readEnabled
        <4>1. stack' = <<"recv", "waiting">> \o Tail(stack)
          BY <1>1, <3>3 DEF Proceed_Loop
        <4>2. /\ stack' \in Seq(Calls) /\ stack' # <<>> /\ WellNested(stack')
              /\ stack'[1] = "recv" /\ Len(stack') # 1
          BY <1>0, <2>1, <4>1, NestCall
        <4>3. ControlInv'
          BY <1>0, <2>1, <2>3, <3>3, <4>2, InCall
        <4>4. TypeOK'
          BY <1>0, <1>1, <2>1, <2>3, <4>2 DEF Proceed_Loop, TypeOK
        <4> QED
          BY <3>1, <4>3, <4>4 DEF Inv
      <3>4. CASE ~ (input # <<>> /\ readEnabled)
        <4>1. stack' = <<"finish">> \o Tail(stack)
          BY <1>1, <3>2, <3>4 DEF Proceed_Loop
        <4>2. /\ stack' \in Seq(Calls) /\ stack' # <<>> /\ WellNested(stack')
              /\ stack'[1] = "finish" /\ Len(stack') = Len(stack)
          BY <1>0, <2>1, <4>1, NestReplace
        <4>3. Len(stack) = 1 /\ readEnabled => ibuf = <<>>
          BY <1>0, <2>1 DEF ControlInv, LoopInv
        <4>4. ControlInv'
          BY <1>0, <2>1, <2>3, <2>a, <3>2, <3>4, <4>2, <4>3, InCall
        <4>5. TypeOK'
          BY <1>0, <1>1, <2>1, <2>3, <4>2 DEF Proceed_Loop, TypeOK
        <4> QED
          BY <3>1, <4>4, <4>5 DEF Inv
      <3> QED
        BY <3>3, <3>4
    <2> QED
      BY <1>1, <2>2, <2>3 DEF Proceed_Loop
  <1>2. CASE Proceed_Finish
    <2>1. /\ phase = "open" /\ stack # <<>> /\ stack[1] = "finish"
          /\ writing' = (writing \/ StartWrite) /\ writing' \in BOOLEAN
          /\ UNCHANGED <<wslayVars, arrived, input, bufs, wire, appVars, badVars>>
      BY <1>0, <1>2, UnconsSeq DEF Proceed_Finish, StartWrite
    <2>2. writing' <=> bufs # <<>>
      BY <1>0, <2>1 DEF StartWrite
    <2>3. /\ Tail(stack) \in Seq(Calls) /\ WellNested(Tail(stack))
          /\ Tail(stack) # <<>> => Tail(stack)[1] = "recv" /\ Len(Tail(stack)) # 1
      BY <1>0, <2>1, NestPop
    <2>4. /\ readEnabled => input = <<>>
          /\ MaySend => bufs # <<>>
          /\ Len(stack) > 1 /\ ~ readEnabled => closeQueued \/ bufs # <<>>
      BY <1>0, <2>1 DEF ControlInv, LoopInv
    <2>l. Len(stack) \in Nat \ {0} /\ Len(Tail(stack)) = Len(stack) - 1
      BY <1>0, <2>1, UnconsSeq
    <2>5. CASE /\ GoesOn
               /\ reading' = readEnabled
               /\ stack' = Tail(stack)
               /\ UNCHANGED connVars
      <3>1. DataInv'
        BY <1>0, <2>1, <2>5, DataFrame
      <3>2. TypeOK'
        BY <1>0, <2>1, <2>3, <2>5 DEF TypeOK
      <3>3. CASE stack' # <<>>
        <4>1. ControlInv'
          <5>1. Len(stack') > 1 => Len(stack) > 1
            BY <2>5, <2>l
          <5>2. stack' \in Seq(Calls) /\ WellNested(stack') /\ stack'[1] = "recv"
                /\ Len(stack') # 1
            BY <2>3, <2>5, <3>3
          <5>3. UNCHANGED <<phase, freedBy, errors, touched, readEnabled, closeQueued>>
            BY <2>1, <2>5
          <5> QED
            BY <1>0, <2>1, <2>2, <2>4, <3>3, <5>1, <5>2, <5>3, InCall
        <4> QED
          BY <3>1, <3>2, <4>1 DEF Inv
      <3>4. CASE stack' = <<>>
        <4>1. Len(stack) = 1
          <5>1. Len(stack) \in Nat /\ Len(Tail(stack)) = Len(stack) - 1 /\ Len(<<>>) = 0
            BY <1>0, <2>1, UnconsSeq, EmptySeq
          <5>2. Tail(stack) = <<>>
            BY <2>5, <3>4
          <5>3. Len(Tail(stack)) = 0
            BY <5>2, EmptySeq
          <5> QED
            BY <5>1, <5>3
        <4>2. readEnabled => ibuf = <<>>
          BY <1>0, <2>1, <4>1 DEF ControlInv, LoopInv
        <4>3. WantWrite => writing'
          BY <1>0, <2>1, <2>2, <2>4 DEF MaySend
        <4>4. WantWrite' = WantWrite
          BY <2>1 DEF WantWrite
        <4>5. NeverStuck'
          BY <2>1, <2>2, <2>4, <2>5, <4>2, <4>3, <4>4 DEF NeverStuck, GoesOn
        <4>6. EarlyInv' /\ FreedInv' /\ HandshakeEndsOutside'
          BY <1>0, <2>1, <2>5, <3>4
          DEF ControlInv, EarlyInv, FreedInv, HandshakeEndsOutside
        <4>7. CallInv'
          BY <2>3, <2>5 DEF CallInv, WellNested
        <4>8. LoopInv'
          <5>1. Len(stack') # 1
            BY <3>4, EmptySeq
          <5> QED
            BY <2>1, <2>2, <3>4, <5>1 DEF LoopInv
        <4>9. ControlInv'
          BY <4>5, <4>6, <4>7, <4>8 DEF ControlInv
        <4> QED
          BY <3>1, <3>2, <4>9 DEF Inv
      <3> QED
        BY <3>3, <3>4
    <2>6. CASE /\ ~ GoesOn
               /\ OnClose(Tail(stack))
               /\ UNCHANGED reading
      <3>a. ~ (Len(stack) > 1)
        <4>1. ~ readEnabled /\ bufs = <<>> /\ ~ WantWrite
          BY <2>2, <2>6 DEF GoesOn
        <4>2. ~ closeQueued
          BY <1>0, <4>1 DEF WantWrite, DataInv, CloseInv
        <4> QED
          BY <2>4, <4>1, <4>2
      <3>b. Tail(stack) = <<>>
        BY <2>3, <2>l, <3>a, EmptySeq
      <3>1. Frees
        BY <1>0, <2>1, <2>2, <2>3, <2>6, <3>b
        DEF Frees, OnClose, MessageNull, WebsocketClose, TypeOK
      <3> QED
        BY <3>1, FreedStep
    <2> QED
      BY <1>2, <2>5, <2>6 DEF Proceed_Finish
  <1> QED
    BY <1>1, <1>2

\* wslay_event_recv and its callbacks.
LEMMA RecvInv ==
  ASSUME Inv, Recv_Callback \/ Recv_Return \/ Recv_Message \/ Recv_AppCloses
  PROVE  Inv'
  <1> USE DEF connVars, wslayVars, sockVars, appVars, badVars
  <1>0. /\ TypeOK /\ ControlInv /\ DataInv
        /\ stack \in Seq(Calls) /\ WellNested(stack)
        /\ writing \in BOOLEAN /\ (writing => bufs # <<>>)
    BY DEF Inv, TypeOK, ControlInv, CallInv, LoopInv
  <1>r. /\ phase = "open" /\ stack # <<>> /\ stack[1] = "recv"
        /\ Len(stack) # 1
    <2>1. phase = "open" /\ stack # <<>> /\ stack[1] = "recv"
      BY <1>0, UnconsSeq
      DEF Recv_Callback, Recv_Return, Recv_Message, Recv_AppCloses, InRecv
    <2> QED
      BY <1>0, <2>1 DEF WellNested
  <1>1. CASE Recv_Callback
    <2> DEFINE n == IF Chunk < Len(input) THEN Chunk ELSE Len(input)
    <2>1. /\ ibuf = <<>> /\ ibuf' = SubSeq(input, 1, n)
          /\ input' = SubSeq(input, n + 1, Len(input)) /\ phase' = phase
          /\ UNCHANGED <<outq, closeQueued, readEnabled, writeEnabled, accepted,
                         arrived, bufs, wire, stack, writing, freedBy, errors,
                         touched>>
          /\ readEnabled
      BY <1>1 DEF Recv_Callback
    <2>2. n \in 0 .. Len(input)
      BY <1>0, StreamType, BoundsAssumption
    <2> HIDE DEF n
    <2>3. ibuf' \in Seq(PeerFrames) /\ input' \in Seq(PeerFrames) /\ DataInv'
      BY <1>0, <2>1, <2>2, DataHanded
    <2>4. ControlInv'
      BY <1>0, <1>r, <2>1, InCall
    <2>5. TypeOK'
      BY <1>0, <1>1, <2>3 DEF Recv_Callback, TypeOK, PeerFrames
    <2> QED
      BY <2>3, <2>4, <2>5 DEF Inv
  <1>2. CASE Recv_Return
    <2>1. /\ stack' = <<"proceed">> \o SubSeq(stack, 3, Len(stack))
          /\ phase' = phase /\ (readEnabled => ibuf = <<>>)
          /\ Len(stack) > 1 /\ ~ readEnabled => closeQueued \/ bufs # <<>>
          /\ UNCHANGED <<connVars, wslayVars, sockVars, appVars, badVars>>
      BY <1>0, <1>r, <1>2 DEF Recv_Return, ControlInv, LoopInv
    <2>2. /\ stack' \in Seq(Calls) /\ stack' # <<>> /\ WellNested(stack')
          /\ stack'[1] = "proceed"
      BY <1>0, <1>r, <2>1, NestReturn
    <2>3. ControlInv'
      <3>1. Len(stack) \in Nat /\ Len(stack) # 0
        BY <1>0, <1>r, EmptySeq, LenProperties
      <3>2. Len(stack) > 1
        BY <1>r, <3>1
      <3> QED
        BY <1>0, <1>r, <2>1, <2>2, <3>2, InCall
    <2>4. TypeOK'
      BY <1>0, <2>1, <2>2 DEF TypeOK
    <2>5. DataInv'
      BY <1>0, <2>1, DataFrame
    <2> QED
      BY <2>3, <2>4, <2>5 DEF Inv
  <1>3. CASE Recv_Message
    <2>1. /\ readEnabled /\ ibuf # <<>> /\ ibuf' = Tail(ibuf)
          /\ stack' = <<"proceed">> \o stack
          /\ UNCHANGED <<connVars, writeEnabled, sockVars, appVars, badVars>>
      BY <1>3 DEF Recv_Message
    <2>2. /\ stack' \in Seq(Calls) /\ stack' # <<>> /\ WellNested(stack')
          /\ stack'[1] = "proceed" /\ Len(stack') # 1
      BY <1>0, <1>r, <2>1, NestPush
    <2>3. ControlInv'
      <3>1. ~ readEnabled' => closeQueued'
        BY <1>3, <2>1 DEF Recv_Message
      <3> QED
        BY <1>0, <1>r, <2>1, <2>2, <3>1, InCall
    <2>4. /\ Head(ibuf) = PeerMsg(Consumed + 1) /\ Head(ibuf) \in PeerFrames
          /\ Consumed + 1 \in 1 .. MaxMsgs + 1
      BY <1>0, <2>1, StreamNext DEF DataInv
    <2>5. /\ ibuf' \in Seq(PeerFrames)
          /\ Consumed' = Consumed + 1 /\ Consumed' >= 0
          /\ \A i \in 1 .. Len(ibuf') : ibuf'[i] = PeerMsg(Consumed' + i)
          /\ \A i \in 1 .. Len(input) :
                input[i] = PeerMsg(Consumed' + Len(ibuf') + i)
      BY <1>0, <2>1, StreamParsed DEF DataInv
    <2>6. writeEnabled /\ ~ closeQueued
      BY <1>0, <2>1 DEF DataInv, CloseInv
    <2>7. CASE /\ Head(ibuf) = Close /\ readEnabled' = FALSE /\ closeQueued' = TRUE
               /\ UNCHANGED <<outq, accepted>>
      <3>1. StreamInv'
        BY <2>1, <2>5, <2>7 DEF StreamInv, PeerMsg
      <3>2. CloseInv'
        BY <1>0, <2>1, <2>6, <2>7 DEF DataInv, CloseInv, Written
      <3>3. EchoesInOrder'
        BY <1>0, <2>7 DEF DataInv, NothingReordered, EchoesInOrder, Echoes
      <3>4. SentInOrder'
        BY <1>0, <2>1, <2>7 DEF DataInv, NothingReordered, SentInOrder, Written,
                                WithoutClose
      <3>5. CloseIsLast'
        BY <1>0, <2>1 DEF DataInv, NothingReordered, CloseIsLast, Written
      <3>6. TypeOK'
        BY <1>0, <2>1, <2>2, <2>5, <2>7 DEF TypeOK, PeerFrames
      <3> QED
        BY <2>3, <3>1, <3>2, <3>3, <3>4, <3>5, <3>6 DEF Inv, DataInv, NothingReordered
    <2>8. CASE /\ Head(ibuf) # Close /\ Queue(Head(ibuf), closeQueued)
               /\ UNCHANGED <<readEnabled, closeQueued>>
      <3> DEFINE m == Head(ibuf)
      <3>1. m = Consumed + 1 /\ m \in PeerMsgs /\ m \in Data /\ m > 0 /\ m - 1 = Consumed
            /\ ~ (m < 0)
        <4>1. m = Consumed + 1
          BY <2>4, <2>8 DEF PeerMsg
        <4>2. m \in PeerMsgs
          BY <2>4, <2>8 DEF PeerFrames
        <4>3. Consumed \in Int /\ MaxMsgs \in Nat
          BY <1>0, StreamType
        <4> HIDE DEF m
        <4> QED
          BY <4>1, <4>2, <4>3 DEF Data, PeerMsgs
      <3>2. outq' = Append(outq, m) /\ accepted' = Append(accepted, m)
        BY <2>6, <2>8 DEF Queue
      <3> HIDE DEF m
      <3>3. Echoes(Len(accepted)) = 1 .. m - 1
        BY <1>0, <1>r, <2>1, <3>1 DEF DataInv, StreamInv
      <3>4. /\ outq' \in Seq(Data) /\ accepted' \in Seq(Data) /\ NothingReordered'
            /\ Echoes(Len(accepted))' = 1 .. m
        BY <1>0, <2>1, <2>6, <3>1, <3>2, <3>3, QueueAccepts DEF DataInv
      <3>5. StreamInv'
        BY <2>1, <2>5, <3>1, <3>4 DEF StreamInv, PeerMsg
      <3>6. CloseInv'
        BY <1>0, <2>1, <2>8 DEF DataInv, CloseInv, Written
      <3>7. TypeOK'
        BY <1>0, <2>1, <2>2, <2>5, <2>8, <3>4 DEF TypeOK, PeerFrames
      <3> QED
        BY <2>3, <3>4, <3>5, <3>6, <3>7 DEF Inv, DataInv
    <2> QED
      BY <1>3, <2>7, <2>8 DEF Recv_Message
  <1>4. CASE Recv_AppCloses
    <2>1. /\ ibuf # <<>> /\ ibuf' = Tail(ibuf) /\ phase' = "freed"
          /\ freedBy' = "callback" /\ stack' = stack
          /\ UNCHANGED <<object, outq, closeQueued, readEnabled, writeEnabled,
                         accepted, sockVars, appVars, badVars>>
      BY <1>4 DEF Recv_AppCloses, WebsocketClose
    <2>2. /\ ibuf' \in Seq(PeerFrames)
          /\ Consumed' = Consumed + 1 /\ Consumed' >= 0
          /\ \A i \in 1 .. Len(ibuf') : ibuf'[i] = PeerMsg(Consumed' + i)
          /\ \A i \in 1 .. Len(input) :
                input[i] = PeerMsg(Consumed' + Len(ibuf') + i)
      BY <1>0, <2>1, StreamParsed DEF DataInv
    <2>3. StreamInv'
      BY <2>1, <2>2 DEF StreamInv, PeerMsg
    <2>4. CloseInv'
      BY <1>0, <2>1 DEF DataInv, CloseInv, Written
    <2>5. EchoesInOrder'
      BY <1>0, <2>1 DEF DataInv, NothingReordered, EchoesInOrder, Echoes
    <2>6. SentInOrder'
      BY <1>0, <2>1 DEF DataInv, NothingReordered, SentInOrder, Written, WithoutClose
    <2>7. CloseIsLast'
      BY <1>0, <2>1 DEF DataInv, NothingReordered, CloseIsLast, Written
    <2>8. TypeOK'
      BY <1>0, <2>1, <2>2 DEF TypeOK, PeerFrames, Phases
    <2>9. ControlInv'
      BY <1>0, <1>r, <2>1 DEF ControlInv, EarlyInv, CallInv, WellNested, FreedInv,
                  LoopInv, NeverStuck, Idle, HandshakeEndsOutside
    <2> QED
      BY <2>3, <2>4, <2>5, <2>6, <2>7, <2>8, <2>9 DEF Inv, DataInv, NothingReordered
  <1> QED
    BY <1>1, <1>2, <1>3, <1>4

LEMMA NextInv ==
  ASSUME Inv, [Next]_vars
  PROVE  Inv'
  <1>1. CASE Next
    <2>1. CASE CallStep
      BY <2>1, ProceedInv, RecvInv, OutsideInv DEF CallStep
    <2>2. CASE \/ \E req \in Requests : Request(req)
               \/ Upgrade \/ UpgradeFreed \/ CompleteFreed \/ Done
      BY <2>2, OutsideInv
    <2>3. CASE \/ CompleteError \/ OnRecvError \/ OnWriteError
               \/ Proceed_SendError \/ Recv_Error \/ AppClose
      BY <2>3, ClosingInv
    <2>4. CASE Complete \/ OnRecv \/ OnWriteComplete
      BY <2>4, EventInv
    <2>5. CASE AppSend
      BY <2>5, AppSendInv
    <2> QED
      BY <1>1, <2>1, <2>2, <2>3, <2>4, <2>5 DEF Next
  <1>2. CASE UNCHANGED vars
    <2>1. /\ UNCHANGED <<phase, object, freedBy, stack, arrived, input, ibuf, outq,
                         closeQueued, readEnabled, writeEnabled, accepted, bufs,
                         writing, reading, wire, pushes, errors, touched, late>>
      BY <1>2 DEF vars, connVars, wslayVars, sockVars, appVars, badVars
    <2>2. TypeOK'
      BY <2>1 DEF Inv, TypeOK
    <2>3. ControlInv'
      BY <2>1 DEF Inv, ControlInv, EarlyInv, CallInv, WellNested, FreedInv,
                  LoopInv, NeverStuck, Idle, WantWrite, MaySend, HandshakeEndsOutside
    <2>4. DataInv'
      BY <2>1, DataFrame DEF Inv
    <2> QED
      BY <2>2, <2>3, <2>4 DEF Inv
  <1> QED
    BY <1>1, <1>2

-------------------------------------------------------------------------------
(***************************************************************************)
(* The theorems.                                                            *)
(***************************************************************************)

\* The inductive invariant, and with it the types of the connection's state: the
\* write buffers never hold more than _write_buf has room for.
THEOREM Invariance == Spec => []Inv
  <1>1. Init => Inv
    BY InitInv
  <1>2. Inv /\ [Next]_vars => Inv'
    BY NextInv
  <1> QED
    BY <1>1, <1>2, PTL DEF Spec

\* h2o_websocket_proceed, however deep it is re-entered from wslay's callbacks,
\* neither loses, repeats nor reorders a message, and writes nothing after the
\* close frame.
THEOREM MessagesInOrder == Spec => []NothingReordered
  <1>1. Inv => NothingReordered
    BY DEF Inv, DataInv
  <1> QED
    BY <1>1, Invariance, PTL

\* When the loop thread is back in its events, an open connection has a read or
\* a write outstanding for everything it still has to do.
THEOREM NotStuck == Spec => []NeverStuck
  <1>1. Inv => NeverStuck
    BY DEF Inv, ControlInv
  <1> QED
    BY <1>1, Invariance, PTL

\* The close handshake never ends inside wslay_event_recv: only an error that h2o
\* or wslay reports frees the connection under the calls around.
THEOREM EndsOutside == Spec => []HandshakeEndsOutside
  <1>1. Inv => HandshakeEndsOutside
    BY DEF Inv, ControlInv
  <1> QED
    BY <1>1, Invariance, PTL

===============================================================================
