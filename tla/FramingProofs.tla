--------------------------- MODULE FramingProofs ---------------------------
(***************************************************************************)
(* Framing for any sizes of the messages, of the reads, of the writes and  *)
(* of garbage: up to the first message whose end is dropped the factory    *)
(* makes the messages that were sent and holds none back, after it none    *)
(* twice, and it throws for two reasons only.                              *)
(***************************************************************************)
EXTENDS Framing, TLAPS

\* The stream is the messages end to end, the last one perhaps not begun, and
\* all of them whole on the way to a node.
Ordered ==
    /\ \A i \in 1..Len(sent) : Start(i) < ends[i] /\ ends[i] <= Start(i) + SizeOf(sent[i])
    /\ \A i, j \in 1..Len(sent) : i < j => ends[i] < ends[j]
    /\ sent # <<>> => Start(Len(sent)) <= written
    /\ direction = "toNode" => \A i \in 1..Len(sent) : Whole(i)

\* As long as only whole messages were made, the buffer starts where the next
\* one starts, and the size the factory remembers is that of the next one.
Aligned ==
    /\ Unbroken(Len(made)) => base = Start(Len(made) + 1)
    /\ Unbroken(Len(made) + 1) /\ messageSize # 0 =>
         /\ Len(made) + 1 \in 1..Len(sent)
         /\ messageSize = SizeOf(sent[Len(made) + 1])

\* What was made lies in front of the buffer.
Passed == \A i \in 1..Len(made) : made[i] # 0 => ends[made[i]] <= base

\* No whole message waits in the factory while the reader waits for bytes.
Drained ==
    /\ pc = "read" => handed = Len(made) /\ (Filled \/ ~Unbroken(Len(made) + 1))
    /\ pc = "return" => ~Unbroken(Len(made))

\* A node's greeting is its first message, and alone until it is handed over.
Alone ==
    direction = "toCoordinator" =>
        /\ \A i \in 1..Len(sent) : sent[i] = "HELLO" => i = 1
        /\ Len(sent) > 1 => handed > 0

Inv == /\ TypeOK /\ Ordered /\ Aligned /\ Delivered /\ Passed /\ Drained
       /\ Alone /\ ExceptionCause

--------------------------------------------------------------------------
LEMMA Sizes ==
    ASSUME NEW type \in Types
    PROVE  SizeOf(type) \in Nat /\ SizeOf(type) > HeaderSize /\ HeaderSize \in Nat \ {0}
BY FramingSizes

LEMMA InitInv == Init => Inv
<1> SUFFICES ASSUME Init PROVE Inv
    OBVIOUS
<1> USE DEF Init
<1>0. Len(made) = 0 /\ Len(sent) = 0 /\ Len(ends) = 0
    OBVIOUS
<1>1. TypeOK
  <2>1. sent \in Seq(Types) /\ ends \in Seq(Nat) /\ made \in Seq(0..Len(sent))
      OBVIOUS
  <2>2. StreamEnd = 0
      BY <1>0 DEF StreamEnd, Start
  <2>3. handed \in 0..Len(made) /\ Len(sent) <= MaxMessages /\ Len(ends) = Len(sent)
      BY <1>0, FramingSizes
  <2>4. written \in Nat /\ got \in Nat /\ base \in Nat /\ messageSize \in Nat
        /\ base <= got /\ got <= written /\ written <= StreamEnd
      BY <2>2
  <2>5. direction \in Directions /\ pc \in {"read", "fill", "return"} /\ crashed \in BOOLEAN
      OBVIOUS
  <2> QED
      BY <2>1, <2>3, <2>4, <2>5 DEF TypeOK
<1>2. Ordered
    BY <1>0 DEF Ordered
<1>3. Aligned /\ Delivered /\ Passed
    BY <1>0 DEF Aligned, Delivered, Passed, Start
<1>4. Drained /\ Alone /\ ExceptionCause
    BY <1>0, FramingSizes DEF Drained, Filled, Length, Alone, ExceptionCause
<1> QED
    BY <1>1, <1>2, <1>3, <1>4 DEF Inv

--------------------------------------------------------------------------
\* The starts of messages are different, and no start lies beyond the end.
LEMMA StartsDiffer ==
    ASSUME TypeOK, Ordered
    PROVE  /\ StreamEnd \in Nat /\ Len(sent) \in Nat
           /\ \A i \in 1..Len(sent) : ends[i] \in Nat /\ ends[i] <= StreamEnd
           /\ \A i \in 1..(Len(sent) + 1) : Start(i) \in Nat /\ Start(i) <= StreamEnd
           /\ \A i, j \in 1..(Len(sent) + 1) : i < j => Start(i) < Start(j)
<1> DEFINE n == Len(sent)
<1>1. \A i \in 1..n : sent[i] \in Types /\ ends[i] \in Nat
    BY DEF TypeOK
<1>2. \A i \in 1..n : Start(i) \in Nat /\ ends[i] > Start(i)
    BY <1>1 DEF Ordered, Start, TypeOK
<1>3. n \in Nat
    BY DEF TypeOK
<1>4. \A i, j \in 1..(n + 1) : i < j => Start(i) < Start(j)
  <2> TAKE i, j \in 1..(n + 1)
  <2> HAVE i < j
  <2>1. j # 1 /\ j - 1 \in 1..n /\ i \in 1..n /\ Start(j) = ends[j - 1]
      BY <1>3 DEF Start
  <2>2. CASE i = j - 1
      BY <2>1, <2>2, <1>2
  <2>3. CASE i # j - 1
    <3>1. ends[i] < ends[j - 1]
        BY <2>1, <2>3, <1>3 DEF Ordered
    <3> QED
        BY <3>1, <2>1, <1>1, <1>2
  <2> QED
      BY <2>2, <2>3
<1>5. Start(n + 1) \in Nat
    BY <1>1, <1>3 DEF Start, TypeOK
<1>6. \A i \in 1..(n + 1) : Start(i) \in Nat
    BY <1>2, <1>3, <1>5
<1>7. \A i \in 1..(n + 1) : Start(i) <= StreamEnd
    BY <1>3, <1>4, <1>6 DEF StreamEnd
<1>8. \A i \in 1..n : ends[i] <= StreamEnd
  <2> TAKE i \in 1..n
  <2>1. i + 1 \in 1..(n + 1) /\ Start(i + 1) = ends[i]
      BY <1>3 DEF Start
  <2> QED
      BY <2>1, <1>7
<1> QED
    BY <1>1, <1>3, <1>4, <1>6, <1>7, <1>8 DEF StreamEnd

\* The message at the start of the buffer is the one the factory sees.
LEMMA CurrentStarts ==
    ASSUME TypeOK, Ordered
    PROVE  /\ Current \in 0..Len(sent)
           /\ Current # 0 => base = Start(Current)
           /\ \A i \in 1..Len(sent) : base = Start(i) => Current = i
<1>1. \A i, j \in 1..Len(sent) : Start(i) = Start(j) => i = j
    BY StartsDiffer
<1>2. CASE \E i \in 1..Len(sent) : Start(i) = base
  <2>1. Current \in 1..Len(sent) /\ Start(Current) = base
      BY <1>2 DEF Current
  <2> QED
      BY <2>1, <1>1, StartsDiffer
<1>3. CASE ~\E i \in 1..Len(sent) : Start(i) = base
    BY <1>3, StartsDiffer DEF Current
<1> QED
    BY <1>2, <1>3

\* No more messages were made than sent, while only whole ones were made.
LEMMA MadeBound ==
    ASSUME TypeOK, Delivered, Unbroken(Len(made))
    PROVE  Len(made) \in Nat /\ Len(sent) \in Nat /\ Len(made) <= Len(sent)
<1>1. Len(made) \in Nat /\ Len(sent) \in Nat
    BY DEF TypeOK
<1>2. CASE Len(made) = 0
    BY <1>1, <1>2
<1>3. CASE Len(made) # 0
  <2>1. made[Len(made)] = Len(made) /\ made[Len(made)] \in 0..Len(sent)
      BY <1>1, <1>3 DEF Delivered, TypeOK
  <2> QED
      BY <2>1, <1>1
<1> QED
    BY <1>2, <1>3

\* When bytes are left in the buffer and only whole messages were made, they
\* are the start of the first one that was not made, and the factory sees it.
LEMMA CurrentIsNext ==
    ASSUME Inv, Length > 0, Unbroken(Len(made))
    PROVE  /\ Len(made) + 1 \in 1..Len(sent)
           /\ Current = Len(made) + 1
           /\ base = Start(Len(made) + 1)
           /\ sent[Len(made) + 1] \in Types
<1> DEFINE k == Len(made) + 1
<1>0. StreamEnd \in Nat /\ Len(sent) \in Nat /\ Len(made) \in Nat
    BY StartsDiffer DEF Inv, TypeOK
<1>1. base = Start(k) /\ base < StreamEnd
    BY <1>0 DEF Inv, TypeOK, Length, Aligned
<1>2. Len(made) <= Len(sent)
    BY MadeBound DEF Inv
<1>3. k \in 1..Len(sent)
  <2>1. Start(k) # Start(Len(sent) + 1)
      BY <1>0, <1>1 DEF StreamEnd
  <2>2. k # Len(sent) + 1
      BY <2>1
  <2> QED
      BY <2>2, <1>0, <1>2
<1>4. Current = k
    BY <1>1, <1>3, CurrentStarts DEF Inv
<1> QED
    BY <1>1, <1>3, <1>4 DEF Inv, TypeOK

--------------------------------------------------------------------------
LEMMA SendKeeps ==
    ASSUME Inv, NEW type \in Types, Send(type)
    PROVE  Inv'
<1> DEFINE n == Len(sent)
<1> USE DEF Send, Inv
<1>0. SizeOf(type) \in Nat /\ SizeOf(type) > 0 /\ n \in Nat
    BY Sizes DEF TypeOK
<1>1. /\ Len(sent') = n + 1 /\ Len(ends') = n + 1
      /\ \A i \in 1..n : sent'[i] = sent[i] /\ ends'[i] = ends[i]
      /\ sent'[n + 1] = type /\ ends'[n + 1] = StreamEnd + SizeOf(type)
    BY DEF TypeOK
<1>2. \A i \in 1..(n + 1) : Start(i)' = Start(i)
    BY <1>0, <1>1 DEF Start, TypeOK
<1>3. StreamEnd \in Nat /\ StreamEnd = Start(n + 1)
    BY <1>0, StartsDiffer DEF StreamEnd
<1>4. StreamEnd' = StreamEnd + SizeOf(type)
    BY <1>0, <1>1 DEF StreamEnd, Start
<1>5. \A i \in 1..(n + 1) : Whole(i)' <=> (i = n + 1 \/ Whole(i))
  <2>1. \A i \in 1..n : Whole(i)' <=> Whole(i)
      BY <1>0, <1>1, <1>2 DEF Whole
  <2>2. \A i : i = n + 1 => Whole(i)'
    <3>1. \A i : i = n + 1 => Start(i)' = StreamEnd /\ ends'[i] = StreamEnd + SizeOf(type)
                                /\ sent'[i] = type
        BY <1>0, <1>1, <1>2, <1>3
    <3> QED
        BY <3>1, <1>0, <1>3 DEF Whole
  <2> QED
      BY <2>1, <2>2, <1>0
<1>6. \A i \in Nat : Unbroken(i)' <=> Unbroken(i)
  <2> SUFFICES ASSUME NEW i \in Nat
               PROVE  (\A j \in 1..(n + 1) : j <= i => Whole(j)') <=> (\A j \in 1..n : j <= i => Whole(j))
      BY <1>1 DEF Unbroken
  <2> HIDE DEF Send, Inv
  <2> QED
      BY <1>0, <1>5
<1>7. TypeOK'
  <2>1. sent' \in Seq(Types) /\ ends' \in Seq(Nat) /\ Len(sent') <= MaxMessages
      BY <1>0, <1>1, <1>3, FramingSizes DEF TypeOK
  <2>2. made' \in Seq(0..Len(sent'))
    <3>1. made \in Seq(0..n) /\ Len(made) \in Nat
        BY DEF TypeOK
    <3>2. \A i \in 1..Len(made) : made[i] \in 0..(n + 1)
        BY <3>1, <1>0
    <3> QED
        BY <3>1, <3>2, <1>1 DEF factory
  <2> QED
      BY <2>1, <2>2, <1>0, <1>1, <1>3, <1>4 DEF TypeOK, factory
<1>8. Ordered'
  <2>1. \A i \in 1..(n + 1) : (Start(i) < ends[i] /\ ends[i] <= Start(i) + SizeOf(sent[i]))'
      BY <1>0, <1>1, <1>2, <1>3 DEF Ordered
  <2>2. \A i \in 1..n : ends'[i] <= StreamEnd
      BY <1>1, StartsDiffer
  <2>3. \A i, j \in 1..(n + 1) : i < j => ends'[i] < ends'[j]
    <3> TAKE i, j \in 1..(n + 1)
    <3> HAVE i < j
    <3>1. CASE j \in 1..n
        BY <3>1, <1>0, <1>1 DEF Ordered
    <3>2. CASE j = n + 1
      <4>1. i \in 1..n /\ ends'[i] \in Nat
          BY <3>2, <1>0, <1>1 DEF TypeOK
      <4> QED
          BY <4>1, <3>2, <2>2, <1>0, <1>1, <1>3
    <3>3. j \in 1..n \/ j = n + 1
        BY <1>0
    <3> QED
        BY <3>1, <3>2, <3>3
  <2>4. (Start(Len(sent)) <= written)'
    <3>1. (Start(Len(sent)))' = StreamEnd
        BY <1>0, <1>1, <1>3 DEF Start, TypeOK
    <3> QED
        BY <3>1, <1>3
  <2>5. (direction = "toNode" => \A i \in 1..Len(sent) : Whole(i))'
    <3>1. direction' = "toNode" => \A i \in 1..n : Whole(i)
        BY DEF Ordered
    <3> QED
        BY <3>1, <1>0, <1>1, <1>5
  <2> QED
      BY <2>1, <2>3, <2>4, <2>5, <1>1 DEF Ordered
<1>9. Len(made) \in Nat /\ Len(made) + 1 \in Nat
    BY DEF TypeOK
<1>10. Aligned'
  <2>1. Unbroken(Len(made)) => Len(made) + 1 \in 1..(n + 1)
      BY MadeBound, <1>0, <1>9
  <2>2. (Unbroken(Len(made)) => base = Start(Len(made) + 1))'
      BY <2>1, <1>2, <1>6, <1>9 DEF Aligned, factory
  <2>3. (Unbroken(Len(made) + 1) /\ messageSize # 0 =>
            /\ Len(made) + 1 \in 1..Len(sent)
            /\ messageSize = SizeOf(sent[Len(made) + 1]))'
      BY <1>0, <1>1, <1>6, <1>9 DEF Aligned, factory
  <2> QED
      BY <2>2, <2>3 DEF Aligned
<1>11. Delivered'
    BY <1>6, <1>9 DEF Delivered, factory
<1>12. Passed'
    BY <1>1 DEF Passed, TypeOK, factory
<1>13. Drained'
    BY <1>6, <1>9 DEF Drained, Filled, Length, factory
<1>14. Alone'
  <2> SUFFICES ASSUME direction = "toCoordinator" PROVE Alone'
      BY DEF Alone
  <2>1. (type = "HELLO" <=> sent = <<>>) /\ (sent # <<>> => handed > 0)
      BY DEF NodeSays
  <2>2. sent = <<>> => n = 0
      OBVIOUS
  <2>3. n = 0 => sent = <<>>
      BY DEF TypeOK
  <2> QED
      BY <2>1, <2>2, <2>3, <1>0, <1>1 DEF Alone
<1>15. ExceptionCause'
    BY DEF ExceptionCause
<1> QED
    BY <1>7, <1>8, <1>10, <1>11, <1>12, <1>13, <1>14, <1>15

LEMMA WriteOnKeeps ==
    ASSUME Inv, NEW n \in 1..(StreamEnd - written), WriteOn(n)
    PROVE  Inv'
<1> USE DEF WriteOn, Inv, factory
<1>1. StreamEnd' = StreamEnd /\ \A i : Start(i)' = Start(i)
    BY DEF StreamEnd, Start
<1>2. \A i : (Whole(i)' <=> Whole(i)) /\ (Unbroken(i)' <=> Unbroken(i))
    BY <1>1 DEF Whole, Unbroken
<1>3. StreamEnd \in Nat /\ written \in Nat
    BY StartsDiffer DEF TypeOK
<1>4. TypeOK'
    BY <1>1, <1>3 DEF TypeOK
<1>5. Ordered'
  <2>1. sent # <<>> => Start(Len(sent)) \in Nat /\ Start(Len(sent)) <= written
    <3>1. sent # <<>> => Len(sent) \in 1..(Len(sent) + 1)
        BY DEF TypeOK
    <3> QED
        BY <3>1, StartsDiffer DEF Ordered
  <2> QED
      BY <2>1, <1>1, <1>2, <1>3 DEF Ordered
<1>6. Aligned' /\ Delivered' /\ Passed' /\ Drained' /\ Alone' /\ ExceptionCause'
    BY <1>1, <1>2 DEF Aligned, Delivered, Passed, Drained, Filled, Length, Alone, ExceptionCause
<1> QED
    BY <1>4, <1>5, <1>6

\* A short write moves the end of the last message back to where it stops.
LEMMA WriteOnceKeeps ==
    ASSUME Inv, NEW n \in 1..(StreamEnd - written), WriteOnce(n)
    PROVE  Inv'
<1> DEFINE m == Len(sent)
<1> USE DEF WriteOnce, Inv, factory
<1>0. StreamEnd \in Nat /\ written \in Nat /\ m \in Nat /\ n \in Nat /\ n > 0
      /\ written + n <= StreamEnd
    BY StartsDiffer DEF TypeOK
<1>1. m \in 1..m /\ StreamEnd = ends[m]
  <2>1. m # 0
    <3>1. m = 0 => StreamEnd = 0
        BY DEF StreamEnd, Start
    <3> QED
        BY <3>1, <1>0
  <2> QED
      BY <2>1, <1>0 DEF StreamEnd, Start
<1>2. /\ Len(ends') = m /\ ends' \in Seq(Nat)
      /\ ends'[m] = written + n
      /\ \A i \in 1..m : i # m => ends'[i] = ends[i]
    BY <1>0, <1>1 DEF TypeOK
<1>3. \A i \in 1..m : Start(i)' = Start(i)
    BY <1>0, <1>2 DEF Start, TypeOK
<1>4. StreamEnd' = written + n /\ StreamEnd' = written'
    BY <1>0, <1>1, <1>2 DEF StreamEnd, Start
<1>5. Start(m) <= written /\ Start(m) \in Nat
  <2>1. sent # <<>>
      BY <1>1
  <2> QED
      BY <2>1, <1>0, <1>1, StartsDiffer DEF Ordered
<1>6. \A i \in 1..m : Whole(i)' => Whole(i) /\ (i = m => ends'[m] = ends[m])
  <2>1. \A i \in 1..m : i # m => (Whole(i)' <=> Whole(i))
      BY <1>2, <1>3 DEF Whole
  <2>2. SizeOf(sent[m]) \in Nat /\ ends[m] <= Start(m) + SizeOf(sent[m]) /\ ends[m] \in Nat
      BY <1>1, Sizes DEF TypeOK, Ordered
  <2>3. ASSUME NEW i \in 1..m, i = m, Whole(i)' PROVE Whole(m) /\ ends'[m] = ends[m]
    <3>1. ends'[i] = Start(i) + SizeOf(sent[i])
        BY <2>3, <1>3 DEF Whole
    <3>2. written + n = Start(m) + SizeOf(sent[m])
        BY <3>1, <2>3, <1>2
    <3>3. ends[m] = written + n
        BY <3>2, <2>2, <1>0, <1>1, <1>5
    <3> QED
        BY <3>2, <3>3, <1>2 DEF Whole
  <2> QED
      BY <2>1, <2>3
<1>7. /\ \A i \in Nat : Unbroken(i)' => Unbroken(i)
      /\ \A i \in Nat : Unbroken(i)' /\ i >= m => ends'[m] = ends[m]
  <2>1. \A i : Unbroken(i)' <=> \A j \in 1..m : j <= i => Whole(j)'
      BY DEF Unbroken
  <2> QED
      BY <2>1, <1>0, <1>1, <1>6 DEF Unbroken
<1>8. TypeOK'
    BY <1>0, <1>2, <1>4 DEF TypeOK
<1>9. Ordered'
  <2>1. \A i \in 1..m : (Start(i) < ends[i] /\ ends[i] <= Start(i) + SizeOf(sent[i]))'
    <3>1. \A i \in 1..m : i # m => (Start(i) < ends[i] /\ ends[i] <= Start(i) + SizeOf(sent[i]))'
        BY <1>2, <1>3 DEF Ordered
    <3>2. SizeOf(sent[m]) \in Nat /\ ends[m] <= Start(m) + SizeOf(sent[m])
        BY <1>1, Sizes DEF TypeOK, Ordered
    <3>3. Start(m) < written + n /\ written + n <= Start(m) + SizeOf(sent[m])
        BY <3>2, <1>0, <1>1, <1>5
    <3>4. \A i \in 1..m : i = m => (Start(i) < ends[i] /\ ends[i] <= Start(i) + SizeOf(sent[i]))'
        BY <3>3, <1>2, <1>3
    <3> QED
        BY <3>1, <3>4
  <2>2. \A i, j \in 1..m : i < j => ends'[i] < ends'[j]
    <3> TAKE i, j \in 1..m
    <3> HAVE i < j
    <3>1. CASE j # m
        BY <3>1, <1>0, <1>2 DEF Ordered
    <3>2. CASE j = m
      <4>1. i + 1 \in 1..m /\ ends[i] = Start(i + 1)
          BY <3>2, <1>0 DEF Start
      <4>2. Start(i + 1) <= Start(m) /\ Start(i + 1) \in Nat
          BY <4>1, <3>2, <1>0, <1>1, <1>5, StartsDiffer
      <4> QED
          BY <4>1, <4>2, <3>2, <1>0, <1>2, <1>5
    <3> QED
        BY <3>1, <3>2
  <2>3. (Start(Len(sent)) <= written)'
      BY <1>0, <1>1, <1>3, <1>5
  <2> QED
      BY <2>1, <2>2, <2>3 DEF Ordered
<1>10. Len(made) \in Nat /\ Len(made) + 1 \in Nat
    BY DEF TypeOK
<1>11. Aligned'
  <2>1. ASSUME Unbroken(Len(made))' PROVE base = Start(Len(made) + 1)'
    <3>1. Unbroken(Len(made)) /\ base = Start(Len(made) + 1)
        BY <2>1, <1>7, <1>10 DEF Aligned
    <3>2. CASE Len(made) < m
        BY <3>1, <3>2, <1>0, <1>3, <1>10
    <3>3. CASE Len(made) >= m
      <4>1. ends'[m] = ends[m]
          BY <2>1, <3>3, <1>7, <1>10
      <4>2. \A i \in 1..m : ends'[i] = ends[i]
          BY <4>1, <1>2
      <4>3. Len(made) <= m
          BY <3>1, MadeBound
      <4> QED
          BY <3>1, <3>3, <4>2, <4>3, <1>0, <1>1, <1>10 DEF Start
    <3> QED
        BY <3>2, <3>3, <1>0, <1>10
  <2>2. (Unbroken(Len(made) + 1) /\ messageSize # 0 =>
            /\ Len(made) + 1 \in 1..Len(sent)
            /\ messageSize = SizeOf(sent[Len(made) + 1]))'
      BY <1>7, <1>10 DEF Aligned
  <2> QED
      BY <2>1, <2>2 DEF Aligned
<1>12. Delivered'
    BY <1>7, <1>10 DEF Delivered
<1>13. Passed'
  <2> SUFFICES ASSUME NEW i \in 1..Len(made), made[i] # 0
               PROVE  ends'[made[i]] <= base
      BY DEF Passed
  <2>1. made[i] \in 1..m /\ ends[made[i]] <= base
      BY <1>0 DEF Passed, TypeOK
  <2>2. \A j \in 1..m : ends'[j] <= ends[j] /\ ends'[j] \in Nat /\ ends[j] \in Nat
    <3>1. \A j \in 1..m : ends[j] \in Nat
        BY DEF TypeOK
    <3> QED
        BY <3>1, <1>0, <1>1, <1>2
  <2> QED
      BY <2>1, <2>2 DEF TypeOK
<1>14. Drained'
    BY <1>7, <1>10 DEF Drained, Filled, Length
<1>15. Alone' /\ ExceptionCause'
    BY DEF Alone, ExceptionCause
<1> QED
    BY <1>8, <1>9, <1>11, <1>12, <1>13, <1>14, <1>15

LEMMA ReadKeeps ==
    ASSUME Inv, NEW n \in 1..ReadSize, Read(n)
    PROVE  Inv'
<1> USE DEF Read, Inv, factory, sender
<1>1. StreamEnd' = StreamEnd /\ \A i : Start(i)' = Start(i)
    BY DEF StreamEnd, Start
<1>2. \A i : (Whole(i)' <=> Whole(i)) /\ (Unbroken(i)' <=> Unbroken(i))
    BY <1>1 DEF Whole, Unbroken
<1>3. TypeOK'
    BY <1>1, FramingSizes DEF TypeOK
<1>4. Ordered' /\ Aligned' /\ Delivered' /\ Passed' /\ Drained' /\ Alone' /\ ExceptionCause'
    BY <1>1, <1>2 DEF Ordered, Aligned, Delivered, Passed, Drained, Alone, ExceptionCause
<1> QED
    BY <1>3, <1>4

\* When only whole messages were made and the next one is whole too, its header
\* is read right.
LEMMA HeaderIsRight ==
    ASSUME Inv, Length > 0, Unbroken(Len(made) + 1)
    PROVE  /\ Len(made) + 1 \in 1..Len(sent)
           /\ Current = Len(made) + 1
           /\ Intact
           /\ base = Start(Len(made) + 1)
           /\ ends[Len(made) + 1] = base + SizeOf(sent[Len(made) + 1])
           /\ sent[Len(made) + 1] \in Types
           /\ HeaderTypes = {sent[Len(made) + 1]}
           /\ HeaderLengths = {SizeOf(sent[Len(made) + 1])}
<1> DEFINE k == Len(made) + 1
<1>1. Len(made) \in Nat /\ Unbroken(Len(made))
    BY DEF Inv, TypeOK, Unbroken
<1>2. k \in 1..Len(sent) /\ Current = k /\ base = Start(k) /\ sent[k] \in Types
    BY <1>1, CurrentIsNext
<1>3. Whole(k)
    BY <1>2 DEF Unbroken
<1>4. ends[k] \in Nat /\ base \in Nat
    BY <1>2 DEF Inv, TypeOK
<1>5. SizeOf(sent[k]) \in Nat /\ SizeOf(sent[k]) > HeaderSize /\ HeaderSize \in Nat
    BY <1>2, Sizes
<1>6. ends[k] = base + SizeOf(sent[k])
    BY <1>2, <1>3 DEF Whole
<1> QED
    BY <1>1, <1>2, <1>3, <1>4, <1>5, <1>6 DEF Intact, HeaderTypes, HeaderLengths

LEMMA LearnSizeKeeps == Inv /\ LearnSize => Inv'
<1> SUFFICES ASSUME Inv, LearnSize PROVE Inv'
    OBVIOUS
<1> DEFINE k == Len(made) + 1
<1> USE DEF LearnSize, Inv, sender
<1>1. StreamEnd' = StreamEnd /\ \A i : Start(i)' = Start(i)
    BY DEF StreamEnd, Start
<1>2. \A i : (Whole(i)' <=> Whole(i)) /\ (Unbroken(i)' <=> Unbroken(i))
    BY <1>1 DEF Whole, Unbroken
<1>3. Length > 0 /\ HeaderSize \in Nat /\ Len(made) \in Nat /\ k \in Nat
    BY FramingSizes DEF Length, TypeOK
<1>4. messageSize' \in Nat
  <2>1. Current # 0 => SizeOf(sent[Current]) \in Nat
      BY CurrentStarts, Sizes DEF TypeOK
  <2> QED
      BY <2>1, FramingSizes DEF HeaderLengths
<1>5. Unbroken(k) => /\ k \in 1..Len(sent)
                     /\ messageSize' = SizeOf(sent[k])
                     /\ ~(messageSize' < HeaderSize)
  <2> SUFFICES ASSUME Unbroken(k)
               PROVE  /\ k \in 1..Len(sent)
                      /\ messageSize' = SizeOf(sent[k])
                      /\ ~(messageSize' < HeaderSize)
      OBVIOUS
  <2>1. k \in 1..Len(sent) /\ sent[k] \in Types /\ HeaderLengths = {SizeOf(sent[k])}
      BY <1>3, HeaderIsRight
  <2>2. SizeOf(sent[k]) \in Nat /\ SizeOf(sent[k]) > HeaderSize
      BY <2>1, Sizes
  <2> QED
      BY <2>1, <2>2, <1>3
<1>6. Ordered' /\ Alone' /\ ExceptionCause'
    BY <1>1, <1>2 DEF Ordered, Alone, ExceptionCause
<1>7. CASE messageSize' < HeaderSize
  <2>1. made' = Append(made, 0) /\ pc' = "return" /\ ~Unbroken(k)
      BY <1>5, <1>7
  <2>2. /\ made' \in Seq(0..Len(sent)) /\ Len(made') = k /\ made'[k] = 0
        /\ \A i \in 1..Len(made) : made'[i] = made[i]
    <3>1. 0 \in 0..Len(sent)
        BY DEF TypeOK
    <3> QED
        BY <2>1, <3>1 DEF TypeOK
  <2>3. ~Unbroken(k + 1)
      BY <2>1, <1>3 DEF Unbroken
  <2>4. TypeOK'
      BY <2>1, <2>2, <1>1, <1>3, <1>4 DEF TypeOK
  <2>5. Aligned' /\ Drained'
      BY <2>1, <2>2, <2>3, <1>2 DEF Aligned, Drained
  <2>6. Delivered'
    <3>1. \A i \in 1..k : i = k \/ i \in 1..Len(made)
        BY <1>3
    <3> QED
        BY <3>1, <2>1, <2>2, <1>2 DEF Delivered
  <2>7. Passed'
    <3>1. \A i \in 1..k : i = k \/ i \in 1..Len(made)
        BY <1>3
    <3> QED
        BY <3>1, <2>2 DEF Passed
  <2> QED
      BY <2>4, <2>5, <2>6, <2>7, <1>6
<1>8. CASE ~(messageSize' < HeaderSize)
  <2>1. UNCHANGED <<made, pc>>
      BY <1>8
  <2>2. TypeOK'
      BY <2>1, <1>1, <1>4 DEF TypeOK
  <2>3. Aligned' /\ Delivered' /\ Passed' /\ Drained'
      BY <2>1, <1>1, <1>2, <1>5 DEF Aligned, Delivered, Passed, Drained
  <2> QED
      BY <2>2, <2>3, <1>6
<1> QED
    BY <1>7, <1>8

--------------------------------------------------------------------------
\* Interpret throws only for the reasons of ExceptionCause.
LEMMA ThrowKeeps ==
    ASSUME Inv, Interpret, NEW type \in HeaderTypes, Throw(type)
    PROVE  Inv'
<1> DEFINE k == Len(made) + 1
<1> USE DEF Inv, Interpret, Throw, sender, factory
<1>1. StreamEnd' = StreamEnd /\ \A i : Start(i)' = Start(i)
    BY DEF StreamEnd, Start
<1>2. \A i : (Whole(i)' <=> Whole(i)) /\ (Unbroken(i)' <=> Unbroken(i))
    BY <1>1 DEF Whole, Unbroken
<1>3. TypeOK' /\ Ordered' /\ Aligned' /\ Delivered' /\ Passed' /\ Drained' /\ Alone'
    BY <1>1, <1>2 DEF TypeOK, Ordered, Aligned, Delivered, Passed, Drained, Filled, Length, Alone
<1>4. CASE ~Unbroken(k)
  <2>1. direction = "toCoordinator"
    <3>1. direction = "toNode" \/ direction = "toCoordinator"
        BY FramingSizes DEF TypeOK
    <3>2. direction = "toNode" => Unbroken(k)
        BY DEF Ordered, Unbroken
    <3> QED
        BY <3>1, <3>2, <1>4
  <2>2. ExceptionCause'
      BY <2>1, <1>2, <1>4 DEF ExceptionCause
  <2> QED
      BY <2>2, <1>3
<1>5. CASE Unbroken(k)
  <2>0. Length > 0 /\ Length \in Int /\ Len(made) \in Nat /\ Len(sent) \in Nat
      BY FramingSizes DEF Length, TypeOK
  <2>1. /\ k \in 1..Len(sent) /\ type = sent[k] /\ type \in Types /\ Intact
        /\ ends[k] = base + SizeOf(type)
      BY <1>5, <2>0, HeaderIsRight
  <2>2. messageSize = SizeOf(type) /\ SizeOf(type) \in Nat
      BY <1>5, <2>1, Sizes DEF Aligned
  <2>3. type = "HELLO"
    <3> SUFFICES ASSUME type # "HELLO" PROVE FALSE
        OBVIOUS
    <3>1. Taken(type) = SizeOf(type) /\ type # "ERROR" /\ ~Unclear(type)
        BY <2>1 DEF Taken, Types, Unclear
    <3>2. Length < SizeOf(type)
        BY <3>1 DEF Throws
    <3> QED
        BY <3>2, <2>0, <2>2
  <2>4. Length # HelloSize /\ SizeOf(type) = HelloSize
      BY <2>1, <2>3 DEF Throws, Unclear, SizeOf
  <2>5. got > ends[k]
    <3>1. base \in Nat /\ got \in Nat
        BY DEF TypeOK
    <3> QED
        BY <3>1, <2>0, <2>1, <2>2, <2>4 DEF Length
  <2>6. direction # "toCoordinator"
    <3> SUFFICES ASSUME direction = "toCoordinator" PROVE FALSE
        OBVIOUS
    <3> HIDE DEF k, Interpret, Throw
    <3>0. \A i \in 1..Len(sent) : sent[i] = "HELLO" => i = 1
        BY DEF Alone
    <3>1. k = 1 /\ Len(made) = 0
      <4>1. k \in 1..Len(sent) /\ sent[k] = "HELLO"
          BY <2>1, <2>3
      <4>2. k = 1
          BY <4>1, <3>0
      <4> QED
          BY <4>2, <2>0 DEF k
    <3>2. handed = 0
        BY <3>1 DEF TypeOK
    <3>3. Len(sent) = 1
        BY <3>1, <3>2, <2>0, <2>1 DEF Alone
    <3>4. StreamEnd = ends[k]
        BY <3>1, <3>3 DEF StreamEnd, Start
    <3>5. got <= StreamEnd /\ got \in Nat /\ StreamEnd \in Nat
        BY StartsDiffer DEF TypeOK
    <3> QED
        BY <3>4, <3>5, <2>5
  <2>7. ExceptionCause'
    <3>1. direction = "toNode"
        BY <2>6, FramingSizes DEF TypeOK
    <3> QED
        BY <3>1, <2>1, <2>3, <2>5 DEF ExceptionCause
  <2> QED
      BY <2>7, <1>3
<1> QED
    BY <1>4, <1>5

\* What Make takes is in the buffer, and exactly the message if all bytes of it
\* are there.
LEMMA TakenBytes ==
    ASSUME Inv, Interpret, NEW type \in HeaderTypes, Make(type)
    PROVE  /\ Taken(type) \in Nat /\ Taken(type) <= Length
           /\ Intact => /\ Current \in 1..Len(sent)
                        /\ base = Start(Current)
                        /\ base + Taken(type) = ends[Current]
<1> USE DEF Inv, Interpret, Make
<1>0. HeaderSize \in Nat /\ Length \in Nat /\ Length >= HeaderSize
    BY FramingSizes DEF Length, TypeOK
<1>1. Current \in 0..Len(sent) /\ (Current # 0 => base = Start(Current))
    BY CurrentStarts
<1>2. type \in Types \union {"NONE", "ERROR"} /\ (Current # 0 => type = sent[Current] /\ type \in Types)
    BY <1>1 DEF HeaderTypes, TypeOK
<1>3. type # "ERROR"
    BY DEF Throws, Unclear
<1>4. CASE type = "HELLO"
  <2>1. Taken(type) = Length /\ SizeOf(type) = HelloSize
      BY <1>4 DEF Taken, SizeOf
  <2>2. Intact => Length = HelloSize
      BY <1>4 DEF Throws, Unclear
  <2>3. Intact => ends[Current] = Start(Current) + SizeOf(type) /\ ends[Current] \in Nat
      BY <1>1, <1>2 DEF Intact, Whole, TypeOK
  <2> QED
      BY <2>1, <2>2, <2>3, <1>0, <1>1 DEF Intact, TypeOK
<1>5. CASE type = "NONE"
  <2>1. Taken(type) = HeaderSize
      BY <1>5 DEF Taken
  <2>2. ~Intact
      BY <1>2, <1>5 DEF Intact, Types
  <2> QED
      BY <2>1, <2>2, <1>0
<1>6. CASE type \in Types /\ type # "HELLO"
  <2>1. Taken(type) = SizeOf(type) /\ ~(Length < SizeOf(type))
      BY <1>3, <1>6 DEF Taken, Throws, Unclear, Types
  <2>2. SizeOf(type) \in Nat /\ SizeOf(type) <= Length
      BY <2>1, <1>0, <1>6, Sizes
  <2>3. Intact => ends[Current] = Start(Current) + SizeOf(type) /\ ends[Current] \in Nat
      BY <1>1, <1>2 DEF Intact, Whole, TypeOK
  <2> QED
      BY <2>1, <2>2, <2>3, <1>1 DEF Intact, TypeOK
<1> QED
    BY <1>2, <1>3, <1>4, <1>5, <1>6

LEMMA MakeKeeps ==
    ASSUME Inv, Interpret, NEW type \in HeaderTypes, Make(type)
    PROVE  Inv'
<1> DEFINE k == Len(made) + 1
           new == IF Intact THEN Current ELSE 0
<1>0. /\ Taken(type) \in Nat /\ Taken(type) <= Length
      /\ Intact => /\ Current \in 1..Len(sent)
                   /\ base = Start(Current)
                   /\ base + Taken(type) = ends[Current]
    BY TakenBytes
<1> USE DEF Inv, Interpret, Make, sender
<1>1. StreamEnd' = StreamEnd /\ \A i : Start(i)' = Start(i)
    BY DEF StreamEnd, Start
<1>2. \A i : (Whole(i)' <=> Whole(i)) /\ (Unbroken(i)' <=> Unbroken(i))
    BY <1>1 DEF Whole, Unbroken
<1>3. Length > 0 /\ Len(made) \in Nat /\ k \in Nat /\ base \in Nat /\ got \in Nat
    BY FramingSizes DEF Length, TypeOK
<1>4. /\ base' \in Nat /\ base' <= got /\ base <= base'
      /\ Intact => Current \in 1..Len(sent) /\ base = Start(Current) /\ base' = ends[Current]
    BY <1>0, <1>3 DEF Length
<1>5. new \in 0..Len(sent) /\ (new # 0 => Intact /\ new = Current)
    BY <1>4 DEF TypeOK
<1>6. /\ made' \in Seq(0..Len(sent)) /\ Len(made') = k /\ made'[k] = new
      /\ \A i \in 1..Len(made) : made'[i] = made[i] /\ made[i] \in 0..Len(sent)
      /\ \A i \in 1..k : i = k \/ i \in 1..Len(made)
    BY <1>3, <1>5 DEF TypeOK
<1>7. Unbroken(k) => new = k /\ Intact
    BY <1>3, HeaderIsRight
<1>8. TypeOK'
    BY <1>1, <1>3, <1>4, <1>6 DEF TypeOK, NextSize
<1>9. Ordered' /\ Alone' /\ ExceptionCause'
    BY <1>1, <1>2 DEF Ordered, Alone, ExceptionCause
<1>10. Aligned'
  <2>1. ASSUME Unbroken(k) PROVE base' = Start(k + 1)
      BY <2>1, <1>3, <1>4, <1>7 DEF Start
  <2> QED
      BY <2>1, <1>1, <1>2, <1>6 DEF Aligned, NextSize
<1>11. ASSUME NEW i \in 1..Len(made), made[i] # 0
       PROVE  /\ ends[made[i]] <= base'
              /\ new # 0 => made[i] < new
  <2>0. made[i] \in 1..Len(sent) /\ ends[made[i]] <= base
      BY <1>6, <1>11 DEF Passed
  <2>1. ends[made[i]] \in Nat
      BY <2>0 DEF TypeOK
  <2>2. ends[made[i]] <= base'
      BY <2>0, <2>1, <1>3, <1>4
  <2>3. ASSUME new # 0 PROVE made[i] < new
    <3>1. new \in 1..Len(sent) /\ base = Start(new) /\ Start(new) < ends[new] /\ ends[new] \in Nat
        BY <2>3, <1>4, <1>5 DEF Ordered, TypeOK
    <3>2. made[i] # new /\ ~(new < made[i])
        BY <2>0, <2>1, <3>1, <1>3 DEF Ordered
    <3> QED
        BY <2>0, <3>1, <3>2
  <2> QED
      BY <2>2, <2>3
<1>12. Delivered'
  <2>1. \A i \in 1..k : Unbroken(i) => made'[i] = i
      BY <1>6, <1>7 DEF Delivered
  <2>2. \A i, j \in 1..k : i < j /\ made'[i] # 0 /\ made'[j] # 0 => made'[i] < made'[j]
    <3> SUFFICES ASSUME NEW i \in 1..k, NEW j \in 1..k, i < j, made'[i] # 0, made'[j] # 0
                 PROVE  made'[i] < made'[j]
        OBVIOUS
    <3>1. i \in 1..Len(made)
        BY <1>3
    <3>2. CASE j = k
        BY <3>1, <3>2, <1>6, <1>11
    <3>3. CASE j # k
        BY <3>1, <3>3, <1>6 DEF Delivered
    <3> QED
        BY <3>2, <3>3
  <2> QED
      BY <2>1, <2>2, <1>2, <1>6 DEF Delivered
<1>13. Passed'
  <2> SUFFICES ASSUME NEW i \in 1..k, made'[i] # 0 PROVE ends[made'[i]] <= base'
      BY <1>6 DEF Passed
  <2>1. CASE i = k
    <3>1. Intact /\ made'[i] = Current /\ base' = ends[Current] /\ Current \in 1..Len(sent)
        BY <2>1, <1>4, <1>5, <1>6
    <3> QED
        BY <3>1, <1>4
  <2>2. CASE i # k
      BY <2>2, <1>6, <1>11
  <2> QED
      BY <2>1, <2>2
<1>14. Drained'
    BY DEF Drained
<1> QED
    BY <1>8, <1>9, <1>10, <1>12, <1>13, <1>14

LEMMA HandOverKeeps == Inv /\ HandOver => Inv'
<1> SUFFICES ASSUME Inv, HandOver PROVE Inv'
    OBVIOUS
<1> USE DEF HandOver, Inv, sender, factory
<1>1. StreamEnd' = StreamEnd /\ \A i : Start(i)' = Start(i)
    BY DEF StreamEnd, Start
<1>2. \A i : (Whole(i)' <=> Whole(i)) /\ (Unbroken(i)' <=> Unbroken(i))
    BY <1>1 DEF Whole, Unbroken
<1>3. TypeOK' /\ Ordered' /\ Aligned' /\ Delivered' /\ Passed' /\ ExceptionCause'
    BY <1>1, <1>2 DEF TypeOK, Ordered, Aligned, Delivered, Passed, ExceptionCause
<1>4. Drained'
  <2>1. Len(made) \in Nat
      BY DEF TypeOK
  <2>2. ~Unbroken(Len(made)) => ~Unbroken(Len(made) + 1)
      BY <2>1 DEF Unbroken
  <2> QED
      BY <2>2, <1>2 DEF Drained, Filled, Length
<1>5. Alone'
    BY DEF Alone, TypeOK
<1> QED
    BY <1>3, <1>4, <1>5

\* The invariant holds for any sizes.
THEOREM FramingInvariant == Spec => []Inv
<1>1. Inv /\ [Next]_vars => Inv'
  <2> SUFFICES ASSUME Inv, [Next]_vars PROVE Inv'
      OBVIOUS
  <2>1. ASSUME NEW type \in Types, Send(type) PROVE Inv'
      BY <2>1, SendKeeps
  <2>2. ASSUME NEW n \in 1..(StreamEnd - written), WriteOn(n) PROVE Inv'
      BY <2>2, WriteOnKeeps
  <2>3. ASSUME NEW n \in 1..(StreamEnd - written), WriteOnce(n) PROVE Inv'
      BY <2>3, WriteOnceKeeps
  <2>4. ASSUME NEW n \in 1..ReadSize, Read(n) PROVE Inv'
      BY <2>4, ReadKeeps
  <2>5. CASE LearnSize
      BY <2>5, LearnSizeKeeps
  <2>6. CASE Interpret
    <3>1. PICK type \in HeaderTypes : Throw(type) \/ Make(type)
        BY <2>6 DEF Interpret
    <3> QED
        BY <3>1, <2>6, ThrowKeeps, MakeKeeps
  <2>7. CASE HandOver
      BY <2>7, HandOverKeeps
  <2>8. CASE UNCHANGED vars
    <3>1. StreamEnd' = StreamEnd /\ \A i : Start(i)' = Start(i)
        BY <2>8 DEF vars, sender, StreamEnd, Start
    <3>2. \A i : (Whole(i)' <=> Whole(i)) /\ (Unbroken(i)' <=> Unbroken(i))
        BY <2>8, <3>1 DEF vars, sender, Whole, Unbroken
    <3> QED
        BY <2>8, <3>1, <3>2 DEF vars, sender, factory, Inv, TypeOK, Ordered, Aligned, Delivered,
              Passed, Drained, Filled, Length, Alone, ExceptionCause
  <2> QED
      BY <2>1, <2>2, <2>3, <2>4, <2>5, <2>6, <2>7, <2>8 DEF Next, Sends, Writes, Reads, Fills
<1> QED
    BY <1>1, InitInv, PTL DEF Spec

\* The state keeps its shape; in particular the factory never takes more bytes
\* than it has, even when it takes bytes of a body for a header
\* (byteBuffer.h:57-63).
THEOREM FramingTypes == Spec => []TypeOK
BY FramingInvariant, PTL DEF Inv

\* The messages made are the messages sent, in order, up to the first one cut
\* short by the writer, and behind it none is made twice
\* (messageFactory.cpp:13-97).
THEOREM DeliveredAlways == Spec => []Delivered
BY FramingInvariant, PTL DEF Inv

\* A message that is complete is handed over before the next read, up to the
\* first one cut short (messageFactory.cpp:17-41).
THEOREM NoneIsHeldBack == Spec => []NoneHeldBack
<1>1. Inv => NoneHeldBack
  <2> SUFFICES ASSUME Inv, pc = "read",
                      NEW i \in 1..Len(sent), Unbroken(i), ends[i] <= got, ~(i <= handed)
               PROVE  FALSE
      BY DEF NoneHeldBack
  <2> USE DEF Inv
  <2> DEFINE k == Len(made) + 1
  <2>1. k \in 1..Len(sent) /\ k <= i
      BY DEF Drained, TypeOK
  <2>2. Unbroken(k) /\ Unbroken(Len(made)) /\ Whole(k)
      BY <2>1 DEF Unbroken, TypeOK
  <2>3. ends[k] <= got
    <3>1. ends[k] <= ends[i] /\ ends[k] \in Nat /\ ends[i] \in Nat
        BY <2>1 DEF Ordered, TypeOK
    <3> QED
        BY <3>1 DEF TypeOK
  <2>4. ends[k] = base + SizeOf(sent[k]) /\ ends[k] \in Nat /\ base \in Nat
      BY <2>1, <2>2 DEF Whole, Aligned, TypeOK
  <2>5. SizeOf(sent[k]) \in Nat /\ SizeOf(sent[k]) > HeaderSize /\ HeaderSize \in Nat
      BY <2>1, Sizes DEF TypeOK
  <2>6. Filled
      BY <2>2 DEF Drained
  <2>7. messageSize # 0 => messageSize = SizeOf(sent[k])
      BY <2>2 DEF Aligned
  <2>8. Length >= SizeOf(sent[k]) /\ Length \in Int
      BY <2>3, <2>4, <2>5 DEF Length, TypeOK
  <2>9. messageSize \in Nat
      BY DEF TypeOK
  <2> QED
      BY <2>5, <2>6, <2>7, <2>8, <2>9 DEF Filled
<1> QED
    BY <1>1, FramingInvariant, PTL

\* In both directions an exception leaves the factory for the two known
\* reasons only (byteBuffer.h:57-63, helloMessage.cpp:37-50,
\* communication.cpp:100-111).
THEOREM ExceptionsExplained == Spec => []ExceptionCause
BY FramingInvariant, PTL DEF Inv

==========================================================================
