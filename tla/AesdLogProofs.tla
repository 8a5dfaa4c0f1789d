--------------------------- MODULE AesdLogProofs ---------------------------
(***************************************************************************)
(* The server implements PacketLog: every packet reaches the log in one     *)
(* step, and a complete response is what the log returned at one moment.    *)
(***************************************************************************)
EXTENDS AesdServerProofs, SequenceTheorems

(* The numbers of the newlines are finitely many places of the output.     *)
LEMMA NewlinesFinite ==
  ASSUME NEW S, NEW out \in Seq(S)
  PROVE  /\ Newlines(out) \subseteq 1 .. Len(out) /\ IsFiniteSet(Newlines(out))
         /\ Cardinality(Newlines(out)) \in Nat
<1>0. Len(out) \in Int /\ 1 \in Int /\ DOMAIN out = 1 .. Len(out)
  OBVIOUS
<1>1. Newlines(out) \subseteq 1 .. Len(out) /\ IsFiniteSet(1 .. Len(out))
  <2>1. IsFiniteSet(1 .. Len(out))
    BY <1>0, FS_Interval
  <2> QED  BY <1>0, <2>1 DEF Newlines
<1>2. IsFiniteSet(Newlines(out))
  BY <1>1, FS_Subset
<1> QED  BY <1>1, <1>2, FS_CardinalityType

(* One piece more is one newline more, or none.                            *)
LEMMA NewlinesOfAppend ==
  ASSUME NEW out \in Seq(Pieces), NEW x \in Pieces
  PROVE  LET new == Append(out, x) IN
         /\ x[2] # "nl" => Newlines(new) = Newlines(out)
         /\ x[2] = "nl" => /\ Newlines(new) = Newlines(out) \cup {Len(out) + 1}
                           /\ Cardinality(Newlines(new)) = Cardinality(Newlines(out)) + 1
<1> DEFINE new == Append(out, x)
<1>1. /\ DOMAIN new = 1 .. Len(out) + 1 /\ DOMAIN out = 1 .. Len(out) /\ Len(out) \in Nat
      /\ \A i \in 1 .. Len(out) : new[i] = out[i]
      /\ new[Len(out) + 1] = x
  OBVIOUS
<1> HIDE DEF new
<1>2. \A i : i \in 1 .. Len(out) + 1 <=> i \in 1 .. Len(out) \/ i = Len(out) + 1
  BY <1>1
<1>3. Len(out) + 1 \notin 1 .. Len(out)
  BY <1>1
<1>4. x[2] # "nl" => Newlines(new) = Newlines(out)
  BY <1>1, <1>2, <1>3 DEF Newlines
<1>5. x[2] = "nl" => Newlines(new) = Newlines(out) \cup {Len(out) + 1}
  BY <1>1, <1>2, <1>3 DEF Newlines
<1>6. Len(out) + 1 \notin Newlines(out)
  BY <1>1, <1>3 DEF Newlines
<1>7. Cardinality(Newlines(out) \cup {Len(out) + 1}) = Cardinality(Newlines(out)) + 1
  BY <1>6, NewlinesFinite, FS_AddElement
<1> QED  BY <1>4, <1>5, <1>7 DEF new

(* Dropping everything up to the first newline drops one newline.          *)
LEMMA NewlinesOfSuffix ==
  ASSUME NEW out \in Seq(Pieces), Newlines(out) # {}
  PROVE  LET m == Min(Newlines(out))
             kept == SubSeq(out, m + 1, Len(out)) IN
         /\ m \in 1 .. Len(out)
         /\ Cardinality(Newlines(kept)) = Cardinality(Newlines(out)) - 1
<1> DEFINE m == Min(Newlines(out))
           kept == SubSeq(out, m + 1, Len(out))
           rest == Newlines(out) \ {m}
           f == [i \in rest |-> i - m]
<1>1. Newlines(out) \subseteq 1 .. Len(out) /\ IsFiniteSet(Newlines(out))
  BY NewlinesFinite
<1>2. Newlines(out) \subseteq Nat
  BY <1>1
<1>3. m \in Newlines(out) /\ \A i \in Newlines(out) : m <= i
  BY <1>2, MinIsLeast
<1>4. m \in 1 .. Len(out) /\ Len(out) \in Nat
  BY <1>1, <1>3
<1>5. Cardinality(rest) = Cardinality(Newlines(out)) - 1 /\ IsFiniteSet(rest)
  BY <1>1, <1>3, FS_RemoveElement
<1> HIDE DEF m
<1>6. /\ DOMAIN kept = 1 .. Len(out) - m
      /\ \A i \in 1 .. Len(out) - m : kept[i] = out[i + m]
  BY <1>4
<1> HIDE DEF kept
<1>7. \A i \in rest : i - m \in 1 .. Len(out) - m /\ (i - m) + m = i /\ i - m \in Newlines(kept)
  <2> SUFFICES ASSUME NEW i \in rest
               PROVE  i - m \in 1 .. Len(out) - m /\ (i - m) + m = i /\ i - m \in Newlines(kept)
    OBVIOUS
  <2>1. i \in 1 .. Len(out) /\ m <= i /\ i # m /\ out[i][2] = "nl"
    BY <1>1, <1>3 DEF Newlines
  <2>2. i - m \in 1 .. Len(out) - m /\ (i - m) + m = i
    BY <1>4, <2>1
  <2>3. kept[i - m] = out[i]
    BY <1>6, <2>2
  <2> QED  BY <1>6, <2>1, <2>2, <2>3 DEF Newlines
<1>8. \A k \in Newlines(kept) : k + m \in rest /\ (k + m) - m = k
  <2> SUFFICES ASSUME NEW k \in Newlines(kept) PROVE k + m \in rest /\ (k + m) - m = k
    OBVIOUS
  <2>1. k \in 1 .. Len(out) - m /\ kept[k][2] = "nl"
    BY <1>6 DEF Newlines
  <2>2. k + m \in 1 .. Len(out) /\ k + m # m /\ (k + m) - m = k /\ out[k + m][2] = "nl"
    BY <1>4, <1>6, <2>1
  <2>3. DOMAIN out = 1 .. Len(out)
    OBVIOUS
  <2> QED  BY <2>2, <2>3 DEF Newlines
<1>9. f \in Bijection(rest, Newlines(kept))
  <2>1. f \in [rest -> Newlines(kept)]
    BY <1>7
  <2>2. \A a, b \in rest : f[a] = f[b] => a = b
    BY <1>7
  <2>3. ASSUME NEW k \in Newlines(kept) PROVE \E a \in rest : f[a] = k
    BY <1>8
  <2> HIDE DEF f, rest
  <2>4. f \in Injection(rest, Newlines(kept))
    BY <2>1, <2>2 DEF Injection, IsInjective
  <2>5. f \in Surjection(rest, Newlines(kept))
    BY <2>1, <2>3 DEF Surjection
  <2> QED  BY <2>4, <2>5 DEF Bijection
<1>10. Cardinality(Newlines(kept)) = Cardinality(rest)
  <2> HIDE DEF f, rest
  <2>1. ExistsBijection(rest, Newlines(kept))
    BY <1>9 DEF ExistsBijection
  <2> QED  BY <1>5, <2>1, FS_Bijection
<1> QED  BY <1>4, <1>5, <1>10 DEF m, kept

(* Within its bounds a device drops nothing.                               *)
LEMMA KeepsAll ==
  ASSUME NEW out \in Seq(Pieces), NEW device,
         device => Cardinality(Newlines(out)) <= Capacity
  PROVE  Keep(device, out) = out
<1>1. Cardinality(Newlines(out)) \in Nat /\ Capacity \in Nat
  BY NewlinesFinite, ServerAssumption
<1>2. ~(device /\ Cardinality(Newlines(out)) > Capacity)
  BY <1>1
<1> QED  BY <1>2, Zenon DEF Keep

(* A device that was not too full is not too full after one more piece:    *)
(* it has kept everything, or it has dropped one command for the one that  *)
(* is complete now and holds as many as it can.                            *)
LEMMA KeepsNewest ==
  ASSUME NEW out \in Seq(Pieces), NEW x \in Pieces, NEW device,
         device => Cardinality(Newlines(out)) <= Capacity
  PROVE  LET new  == Append(out, x)
             kept == Keep(device, new) IN
         /\ device => Cardinality(Newlines(kept)) <= Capacity
         /\ device /\ Cardinality(Newlines(out)) = Capacity =>
              Cardinality(Newlines(kept)) = Capacity
         /\ \/ kept = new
            \/ /\ device /\ Cardinality(Newlines(kept)) = Capacity
               /\ \E m \in 1 .. Len(out) :
                    out[m][2] = "nl" /\ kept = SubSeq(new, m + 1, Len(new))
<1> DEFINE new  == Append(out, x)
           kept == Keep(device, new)
<1>0. new \in Seq(Pieces) /\ Len(new) = Len(out) + 1 /\ Len(out) \in Nat
  OBVIOUS
<1>1. /\ x[2] # "nl" => Newlines(new) = Newlines(out)
      /\ x[2] = "nl" => /\ Newlines(new) = Newlines(out) \cup {Len(out) + 1}
                        /\ Cardinality(Newlines(new)) = Cardinality(Newlines(out)) + 1
  BY NewlinesOfAppend
<1> HIDE DEF new
<1>2. /\ Cardinality(Newlines(out)) \in Nat /\ Newlines(out) \subseteq 1 .. Len(out)
      /\ IsFiniteSet(Newlines(out)) /\ Capacity \in Nat \ {0}
  BY NewlinesFinite, ServerAssumption
<1>3. CASE ~(device /\ Cardinality(Newlines(new)) > Capacity)
  <2>1. kept = new
    BY <1>3, Zenon DEF Keep
  <2>2. device => Cardinality(Newlines(new)) <= Capacity
    <3>1. Cardinality(Newlines(new)) \in Nat
      BY <1>0, NewlinesFinite
    <3> QED  BY <1>2, <1>3, <3>1
  <2>3. device /\ Cardinality(Newlines(out)) = Capacity => Cardinality(Newlines(new)) = Capacity
    BY <1>1, <1>2, <2>2
  <2> HIDE DEF kept
  <2> QED  BY <2>1, <2>2, <2>3 DEF new, kept
<1>4. CASE device /\ Cardinality(Newlines(new)) > Capacity
  <2>1. /\ Cardinality(Newlines(out)) = Capacity
        /\ Cardinality(Newlines(new)) = Capacity + 1 /\ Newlines(out) \subseteq Newlines(new)
    BY <1>1, <1>2, <1>4
  <2>2. Newlines(out) # {}
    BY <1>2, <2>1, FS_EmptySet
  <2>3. Newlines(new) # {} /\ Newlines(new) \subseteq Nat
    <3>1. Newlines(new) \subseteq 1 .. Len(new)
      BY <1>0, NewlinesFinite
    <3> QED  BY <2>1, <2>2, <3>1
  <2>4. kept = SubSeq(new, Min(Newlines(new)) + 1, Len(new))
    BY <1>4, Zenon DEF Keep
  <2>5. Cardinality(Newlines(kept)) = Capacity
    <3>1. Cardinality(Newlines(kept)) = Cardinality(Newlines(new)) - 1
      BY <1>0, <2>3, <2>4, NewlinesOfSuffix
    <3> QED  BY <1>2, <2>1, <3>1
  <2>6. Min(Newlines(new)) \in 1 .. Len(out) /\ out[Min(Newlines(new))][2] = "nl"
    <3>1. PICK i \in Newlines(out) : TRUE
      BY <2>2
    <3>2. i \in 1 .. Len(out) /\ i \in Newlines(new)
      BY <1>2, <2>1, <3>1
    <3>3. Min(Newlines(new)) <= i /\ Min(Newlines(new)) \in Newlines(new)
      BY <2>3, <3>2, MinIsLeast
    <3>4. Newlines(new) \subseteq 1 .. Len(new)
      BY <1>0, NewlinesFinite
    <3>5. Min(Newlines(new)) \in 1 .. Len(out)
      BY <1>0, <3>2, <3>3, <3>4
    <3>6. Min(Newlines(new)) # Len(out) + 1
      BY <1>0, <3>5
    <3>7. Min(Newlines(new)) \in Newlines(out)
      BY <1>1, <3>3, <3>6
    <3> QED  BY <3>5, <3>7 DEF Newlines
  <2> HIDE DEF kept
  <2>7. Capacity <= Capacity
    BY <1>2
  <2> QED  BY <1>4, <2>4, <2>5, <2>6, <2>7 DEF new, kept
<1> QED  BY <1>3, <1>4

(* What the output returns is a beginning of it.                           *)
LEMMA ReadableIsSeq ==
  ASSUME NEW out \in Seq(Pieces), NEW device
  PROVE  Readable(device, out) \in Seq(Pieces) /\ Len(Readable(device, out)) \in Nat
<1> DEFINE S == Newlines(out) \cup {0}
<1>1. S \subseteq 0 .. Len(out) /\ S # {} /\ Len(out) \in Nat
  <2>1. Newlines(out) \subseteq 1 .. Len(out) /\ Len(out) \in Nat
    BY NewlinesFinite
  <2> QED  BY <2>1
<1>2. Max(S) \in S
  <2> HIDE DEF S
  <2> QED  BY <1>1, MaxIsGreatest
<1>3. PICK n \in 0 .. Len(out) : n = Max(S)
  <2> HIDE DEF S
  <2> QED  BY <1>1, <1>2
<1>4. Readable(device, out) = out \/ Readable(device, out) = SubSeq(out, 1, n)
  BY <1>3 DEF Readable
<1>5. SubSeq(out, 1, n) \in Seq(Pieces)
  OBVIOUS
<1>6. Readable(device, out) \in Seq(Pieces)
  BY <1>4, <1>5
<1> QED  BY <1>6

(* What is in front of the pieces c has at the end of a file.              *)
EndsBefore(c, file, n) ==
  /\ n \in 0 .. Len(file)
  /\ \A i \in n + 1 .. Len(file) : file[i][1] = c
  /\ n # 0 => file[n][1] # c

(* Before ends where the pieces of c at the end begin.                     *)
LEMMA BeforeIs ==
  ASSUME NEW file \in Seq(Pieces), NEW c, NEW n, EndsBefore(c, file, n)
  PROVE  Before(c, file) = SubSeq(file, 1, n)
<1> DEFINE S == {0} \cup {i \in 1 .. Len(file) : file[i][1] # c}
<1>1. n \in S /\ S \subseteq 0 .. Len(file) /\ Len(file) \in Nat
  BY DEF EndsBefore
<1>2. \A i \in S : i <= n
  BY DEF EndsBefore
<1>3. Max(S) \in S /\ n <= Max(S)
  <2> HIDE DEF S
  <2> QED  BY <1>1, MaxIsGreatest
<1>4. Max(S) = n
  <2> HIDE DEF S
  <2>0. \A i \in S : i \in Int
    BY <1>1
  <2>1. n \in Int /\ Max(S) \in Int
    BY <1>1, <1>3, <2>0
  <2>2. Max(S) <= n
    BY <1>2, <1>3
  <2> QED  BY <1>3, <2>1, <2>2
<1> QED  BY <1>4 DEF Before

(* There is such a place in every file.                                    *)
LEMMA BeforeExists ==
  ASSUME NEW file \in Seq(Pieces), NEW c
  PROVE  \E n : EndsBefore(c, file, n)
<1> DEFINE S == {0} \cup {i \in 1 .. Len(file) : file[i][1] # c}
<1>1. 0 \in S /\ S \subseteq 0 .. Len(file) /\ Len(file) \in Nat
  OBVIOUS
<1>2. Max(S) \in S /\ \A y \in S : y <= Max(S)
  <2> HIDE DEF S
  <2> QED  BY <1>1, MaxIsGreatest
<1>3. PICK n \in S : \A y \in S : y <= n
  <2> HIDE DEF S
  <2> QED  BY <1>2
<1>4. \A i \in n + 1 .. Len(file) : file[i][1] = c
  BY <1>1, <1>3
<1> QED  BY <1>1, <1>3, <1>4 DEF EndsBefore

(* A client without pieces has nothing at the end.                         *)
LEMMA BeforeNone ==
  ASSUME NEW file \in Seq(Pieces), NEW c, NoneOf(c, file)
  PROVE  Before(c, file) = file
<1>1. EndsBefore(c, file, Len(file)) /\ SubSeq(file, 1, Len(file)) = file
  BY DEF EndsBefore, NoneOf
<1> QED  BY <1>1, BeforeIs

(* One more piece of c does not change what is in front of them.           *)
LEMMA BeforeAppend ==
  ASSUME NEW file \in Seq(Pieces), NEW c \in Clients, NEW kind \in Kinds
  PROVE  Before(c, Append(file, <<c, kind>>)) = Before(c, file)
<1> DEFINE new == Append(file, <<c, kind>>)
<1>1. PICK n : EndsBefore(c, file, n)
  BY BeforeExists
<1>2. /\ new \in Seq(Pieces) /\ Len(new) = Len(file) + 1 /\ Len(file) \in Nat
      /\ \A i \in 1 .. Len(file) : new[i] = file[i]
      /\ new[Len(file) + 1] = <<c, kind>>
  BY DEF Pieces
<1> HIDE DEF new
<1>3. EndsBefore(c, new, n)
  <2>1. \A i \in n + 1 .. Len(new) : i = Len(file) + 1 \/ i \in n + 1 .. Len(file)
    BY <1>2
  <2>2. \A i \in n + 1 .. Len(file) : i \in 1 .. Len(file)
    BY <1>1 DEF EndsBefore
  <2>3. \A i \in n + 1 .. Len(new) : new[i][1] = c
    BY <1>1, <1>2, <2>1, <2>2 DEF EndsBefore
  <2> QED  BY <1>1, <1>2, <2>3 DEF EndsBefore
<1>4. SubSeq(new, 1, n) = SubSeq(file, 1, n)
  <2>1. n \in 0 .. Len(file)
    BY <1>1 DEF EndsBefore
  <2>2. /\ SubSeq(new, 1, n) = [i \in 1 .. n |-> new[i]]
        /\ SubSeq(file, 1, n) = [i \in 1 .. n |-> file[i]]
    BY <1>2, <2>1
  <2>3. \A i \in 1 .. n : new[i] = file[i]
    BY <1>2, <2>1
  <2> QED  BY <2>2, <2>3
<1>5. Before(c, new) = SubSeq(new, 1, n) /\ Before(c, file) = SubSeq(file, 1, n)
  BY <1>1, <1>2, <1>3, BeforeIs
<1> QED  BY <1>4, <1>5 DEF new

(* A file is what is in front of the packet at its end, and the packet.    *)
LEMMA FileSplits ==
  ASSUME NEW file \in Seq(Pieces), NEW n \in 0 .. Len(file)
  PROVE  SubSeq(file, 1, n) \o SubSeq(file, n + 1, Len(file)) = file
<1> DEFINE a == SubSeq(file, 1, n)
           b == SubSeq(file, n + 1, Len(file))
<1>1. /\ a \in Seq(Pieces) /\ Len(a) = n /\ n \in Nat /\ Len(file) \in Nat
      /\ \A i \in 1 .. n : a[i] = file[i]
  OBVIOUS
<1>2. /\ b \in Seq(Pieces) /\ Len(b) = Len(file) - n
      /\ \A i \in 1 .. Len(file) - n : b[i] = file[i + n]
  OBVIOUS
<1> HIDE DEF a, b
<1>3. /\ a \o b \in Seq(Pieces) /\ Len(a \o b) = Len(file)
      /\ \A i \in 1 .. n : (a \o b)[i] = a[i]
      /\ \A i \in n + 1 .. Len(file) : (a \o b)[i] = b[i - n]
  BY <1>1, <1>2
<1>4. \A i \in 1 .. Len(file) : (a \o b)[i] = file[i]
  <2> SUFFICES ASSUME NEW i \in 1 .. Len(file) PROVE (a \o b)[i] = file[i]
    OBVIOUS
  <2>1. CASE i \in 1 .. n
    BY <1>1, <1>3, <2>1
  <2>2. CASE i \in n + 1 .. Len(file)
    <3>1. i - n \in 1 .. Len(file) - n /\ (i - n) + n = i
      BY <1>1, <2>2
    <3> QED  BY <1>2, <1>3, <2>2, <3>1
  <2>3. i \in 1 .. n \/ i \in n + 1 .. Len(file)
    BY <1>1
  <2> QED  BY <2>1, <2>2, <2>3
<1>5. a \o b = file
  BY <1>3, <1>4, SeqEqual
<1> QED  BY <1>5 DEF a, b

(* All pieces that a client has at the end are in its packet.              *)
LEMMA NoneBefore ==
  ASSUME NEW file \in Seq(Pieces), NEW c \in Clients, OnlyAtEnd(c, file), NEW n,
         EndsBefore(c, file, n)
  PROVE  NoneOf(c, SubSeq(file, 1, n))
<1>1. n \in 0 .. Len(file) /\ Len(file) \in Nat
  BY DEF EndsBefore
<1>2. Len(SubSeq(file, 1, n)) = n /\ \A i \in 1 .. n : SubSeq(file, 1, n)[i] = file[i]
  BY <1>1
<1>3. \A i \in 1 .. n : i \in 1 .. Len(file) /\ n \in i .. Len(file) /\ n # 0
  BY <1>1
<1> QED  BY <1>2, <1>3 DEF NoneOf, OnlyAtEnd, EndsBefore

(* c adds a packet to the log and makes `new' of it.                       *)
AddsPacket(c, device, log, new) ==
  /\ NoneOf(c, log)
  /\ \E n \in 1 .. Len(new) :
       /\ \A i \in 1 .. Len(SubSeq(new, n, Len(new))) : SubSeq(new, n, Len(new))[i][1] = c
       /\ new = Keep(device, log \o SubSeq(new, n, Len(new)))

(* A packet that ends with what is already there.                          *)
LEMMA EndOfPacket ==
  ASSUME NEW file \in Seq(Pieces), NEW c \in Clients, OnlyAtEnd(c, file), NEW device,
         device => Cardinality(Newlines(file)) <= Capacity
  PROVE  Before(c, file) = file \/ AddsPacket(c, device, Before(c, file), file)
<1>1. PICK n : EndsBefore(c, file, n)
  BY BeforeExists
<1>2. Before(c, file) = SubSeq(file, 1, n) /\ NoneOf(c, SubSeq(file, 1, n))
  BY <1>1, BeforeIs, NoneBefore
<1>3. n \in 0 .. Len(file) /\ Len(file) \in Nat
  BY <1>1 DEF EndsBefore
<1>4. CASE n = Len(file)
  <2>1. SubSeq(file, 1, n) = file
    BY <1>4
  <2> QED  BY <1>2, <2>1
<1>5. CASE n # Len(file)
  <2>1. n + 1 \in 1 .. Len(file)
    BY <1>3, <1>5
  <2>2. /\ Len(SubSeq(file, n + 1, Len(file))) = Len(file) - n
        /\ \A i \in 1 .. Len(file) - n : SubSeq(file, n + 1, Len(file))[i] = file[i + n]
    BY <1>3
  <2>3. \A i \in 1 .. Len(file) - n : i + n \in n + 1 .. Len(file)
    BY <1>3
  <2>4. \A i \in 1 .. Len(file) - n : SubSeq(file, n + 1, Len(file))[i][1] = c
    BY <1>1, <2>2, <2>3 DEF EndsBefore
  <2>5. Keep(device, SubSeq(file, 1, n) \o SubSeq(file, n + 1, Len(file))) = file
    <3>1. SubSeq(file, 1, n) \o SubSeq(file, n + 1, Len(file)) = file
      BY <1>3, FileSplits
    <3> QED  BY <3>1, KeepsAll
  <2> QED  BY <1>2, <2>1, <2>2, <2>4, <2>5 DEF AddsPacket
<1> QED  BY <1>4, <1>5

(* A packet that ends with one more piece, for which the device may drop   *)
(* its oldest command.  That is not the client's own.                      *)
LEMMA EndWithPiece ==
  ASSUME NEW file \in Seq(Pieces), NEW c \in Clients, OnlyAtEnd(c, file), NEW kind \in Kinds,
         NEW device, device => Cardinality(Newlines(file)) <= Capacity,
         \A i \in 1 .. Len(file) : file[i] # <<c, "nl">>
  PROVE  AddsPacket(c, device, Before(c, file), Keep(device, Append(file, <<c, kind>>)))
<1> DEFINE x   == <<c, kind>>
           all == Append(file, x)
<1>1. PICK n : EndsBefore(c, file, n)
  BY BeforeExists
<1>2. n \in 0 .. Len(file) /\ Len(file) \in Nat
  BY <1>1 DEF EndsBefore
<1>3. /\ all \in Seq(Pieces) /\ Len(all) = Len(file) + 1
      /\ \A i \in 1 .. Len(file) : all[i] = file[i]
      /\ all[Len(file) + 1] = x /\ x[1] = c /\ x \in Pieces
  BY DEF Pieces
<1>4. Before(c, file) = SubSeq(all, 1, n) /\ NoneOf(c, SubSeq(all, 1, n))
  <2>1. Before(c, file) = SubSeq(file, 1, n) /\ NoneOf(c, SubSeq(file, 1, n))
    BY <1>1, BeforeIs, NoneBefore
  <2>2. SubSeq(all, 1, n) = SubSeq(file, 1, n)
    BY <1>2, <1>3
  <2> QED  BY <2>1, <2>2
<1>5. \A i \in n + 1 .. Len(all) : all[i][1] = c
  <2>1. \A i \in n + 1 .. Len(all) :
          i = Len(file) + 1 \/ (i \in n + 1 .. Len(file) /\ i \in 1 .. Len(file))
    BY <1>2, <1>3
  <2> QED  BY <1>1, <1>3, <2>1 DEF EndsBefore
<1> HIDE DEF all
<1>6. SubSeq(all, 1, n) \o SubSeq(all, n + 1, Len(all)) = all
  <2>1. n \in 0 .. Len(all)
    BY <1>2, <1>3
  <2> QED  BY <1>3, <2>1, FileSplits
<1>7. PICK m \in 0 .. n : Keep(device, all) = SubSeq(all, m + 1, Len(all))
  <2>1. CASE Keep(device, all) = all
    <3>1. all = SubSeq(all, 0 + 1, Len(all)) /\ 0 \in 0 .. n
      BY <1>2, <1>3
    <3> QED  BY <2>1, <3>1
  <2>2. CASE Keep(device, all) # all
    <3>1. PICK m \in 1 .. Len(file) :
            file[m][2] = "nl" /\ Keep(device, all) = SubSeq(all, m + 1, Len(all))
      BY <1>3, <2>2, KeepsNewest DEF all
    <3>2. file[m] \in Pieces /\ file[m] # <<c, "nl">>
      BY <3>1
    <3>3. file[m][1] # c
      BY <3>1, <3>2 DEF Pieces
    <3>4. m \in 0 .. n
      BY <1>1, <1>2, <3>3 DEF EndsBefore
    <3> QED  BY <3>1, <3>4
  <2> QED  BY <2>1, <2>2
<1>8. PICK new \in Seq(Pieces) : new = Keep(device, all)
  <2>1. m + 1 \in 1 .. Len(all) /\ Len(all) \in Nat
    BY <1>2, <1>3, <1>7
  <2>2. SubSeq(all, m + 1, Len(all)) \in Seq(Pieces)
    BY <1>3, <2>1
  <2> QED  BY <1>7, <2>2
<1>9. /\ Len(new) = Len(all) - m /\ n - m + 1 \in 1 .. Len(new)
      /\ SubSeq(new, n - m + 1, Len(new)) = SubSeq(all, n + 1, Len(all))
  <2>1. Len(new) = Len(all) - m /\ \A i \in 1 .. Len(new) : new[i] = all[i + m]
    BY <1>2, <1>3, <1>7, <1>8
  <2>2. n - m + 1 \in 1 .. Len(new)
    BY <1>2, <1>3, <1>7, <2>1
  <2>3. SubSeq(new, n - m + 1, Len(new)) = SubSeq(all, n + 1, Len(all))
    BY <1>2, <1>3, <1>7, <1>8, <2>1, <2>2
  <2> QED  BY <2>1, <2>2, <2>3
<1>10. \A i \in 1 .. Len(SubSeq(all, n + 1, Len(all))) : SubSeq(all, n + 1, Len(all))[i][1] = c
  <2>1. /\ Len(SubSeq(all, n + 1, Len(all))) = Len(all) - n
        /\ \A i \in 1 .. Len(all) - n :
             SubSeq(all, n + 1, Len(all))[i] = all[i + n] /\ i + n \in n + 1 .. Len(all)
    BY <1>2, <1>3
  <2> QED  BY <1>5, <2>1
<1> QED  BY <1>4, <1>6, <1>8, <1>9, <1>10 DEF AddsPacket, all

-----------------------------------------------------------------------------
(* The answers: a worker answers from a file that is there and has its     *)
(* client's packet in it, or from a device that is full of newer commands. *)
Sending   == {"send_check", "send"}
Finishing == {"close", "exit", "ending", "dead"}

FileThere ==
  \A c \in Clients :
    wpc[c] \in {"recv_done", "recv_return", "send_lock", "send_check", "send"} => output # NoFile

(* The device exists, is not too full and has no timer.                    *)
DeviceHolds ==
  char_dev => output # NoFile /\ Cardinality(Newlines(output)) <= Capacity /\ alarm = {}

Arrived(c) == \E i \in 1 .. Len(output) : output[i] \in {<<c, "nl">>, <<c, "cut">>}
HasPacket(c) == Arrived(c) \/ (char_dev /\ Cardinality(Newlines(output)) = Capacity)

PacketThere ==
  \A c \in Clients :
    /\ wpc[c] \in {"recv_done", "recv_return"} => shutdown[c] \/ HasPacket(c)
    /\ wpc[c] \in {"send_lock", "send_check", "send"} => HasPacket(c)

(* What was sent so far is a beginning of what the output returns.         *)
SentSoFar(c, file) ==
  Len(resp[c]) <= Len(file) /\ \A i \in 1 .. Len(resp[c]) : resp[c][i] = file[i]

RespOk ==
  /\ resp \in [Clients -> Seq(Pieces)]
  /\ \A c \in Clients : wpc[c] \notin Sending \cup Finishing => resp[c] = << >>
  /\ \A c \in Clients : wpc[c] \in Sending => SentSoFar(c, Readable(char_dev, output))
  /\ \A c \in Clients : c \in served => wpc[c] \in Finishing

LogInv == FileThere /\ DeviceHolds /\ PacketThere /\ RespOk

(* No answer before the first packet.                                      *)
LEMMA LogInit == Init => LogInv
<1> SUFFICES ASSUME Init PROVE LogInv
  OBVIOUS
<1>1. << >> \in Seq(Pieces) /\ << >> # NoFile
  BY EmptyFile
<1>2. Newlines(<< >>) = {}
  <2>1. DOMAIN << >> = {}
    OBVIOUS
  <2> QED  BY <2>1 DEF Newlines
<1>3. DeviceHolds
  <2>1. Cardinality(Newlines(<< >>)) = 0 /\ Capacity \in Nat
    BY <1>2, FS_EmptySet, ServerAssumption
  <2> QED  BY <1>1, <2>1 DEF Init, DeviceHolds
<1>4. FileThere /\ PacketThere
  BY DEF Init, FileThere, PacketThere
<1>5. RespOk
  BY <1>1 DEF Init, RespOk, Sending, Finishing
<1> QED  BY <1>3, <1>4, <1>5 DEF LogInv

(* A step that leaves the output and the answers alone, with the workers   *)
(* going on in order.                                                      *)
LEMMA LogFrame ==
  ASSUME LogInv, OutputInv, UNCHANGED <<output, char_dev, resp, served>>, char_dev => alarm' = {},
         \A c \in Clients : shutdown[c] => shutdown'[c],
         \A c \in Clients :
           \/ wpc'[c] = wpc[c]
           \/ /\ wpc[c] \in {"none", "recv_lock", "recv_check", "recv"}
              /\ wpc'[c] \in {"recv_lock", "recv_check", "recv"}
           \/ wpc[c] = "recv_check" /\ wpc'[c] = "recv_done" /\ shutdown[c] /\ output # NoFile
           \/ wpc[c] = "recv_done" /\ wpc'[c] = "recv_return"
           \/ wpc[c] = "recv_return" /\ wpc'[c] = "send_lock" /\ ~shutdown[c]
           \/ wpc[c] = "send_lock" /\ wpc'[c] = "send_check"
           \/ wpc[c] = "send_check" /\ wpc'[c] = "send"
           \/ wpc'[c] \in Finishing
  PROVE  LogInv'
<1> USE DEF LogInv
<1>1. FileThere'
  BY DEF FileThere, Finishing
<1>2. DeviceHolds'
  BY DEF DeviceHolds
<1>3. \A c \in Clients : HasPacket(c)' <=> HasPacket(c)
  BY DEF HasPacket, Arrived
<1>4. PacketThere'
  BY <1>3 DEF PacketThere, Finishing
<1>5. ASSUME NEW c \in Clients, wpc'[c] \in Sending
      PROVE  SentSoFar(c, Readable(char_dev, output))
  <2>1. CASE wpc[c] \in Sending
    BY <2>1 DEF RespOk
  <2>2. CASE wpc[c] = "send_lock"
    <3>1. resp[c] = << >>
      BY <2>2 DEF RespOk, Sending, Finishing
    <3>2. output \in Seq(Pieces)
      BY <2>2 DEF FileThere, OutputInv, OutputTypes
    <3>3. Len(resp[c]) = 0 /\ Len(Readable(char_dev, output)) \in Nat
      BY <3>1, <3>2, ReadableIsSeq
    <3> QED  BY <3>3 DEF SentSoFar
  <2> QED  BY <1>5, <2>1, <2>2 DEF Sending, Finishing
<1>6. RespOk'
  <2>1. \A c \in Clients : wpc'[c] \in Sending => SentSoFar(c, Readable(char_dev, output))'
    BY <1>5 DEF SentSoFar
  <2>2. \A c \in Clients :
          wpc'[c] \notin Sending \cup Finishing => wpc[c] \notin Sending \cup Finishing
    BY DEF Sending, Finishing
  <2>3. \A c \in Clients : wpc[c] \in Finishing => wpc'[c] \in Finishing
    BY DEF Finishing
  <2> QED  BY <2>1, <2>2, <2>3 DEF RespOk
<1> QED  BY <1>1, <1>2, <1>4, <1>6

(* An append that keeps the device in bounds loses no packet, other than   *)
(* for a newer command when the device is full.                            *)
LEMMA PacketStays ==
  ASSUME NEW file \in Seq(Pieces), NEW x \in Pieces, output = file, char_dev \in BOOLEAN,
         UNCHANGED char_dev, char_dev => Cardinality(Newlines(file)) <= Capacity,
         output' = Keep(char_dev, Append(file, x)) \/ (~char_dev /\ output' = Append(file, x))
  PROVE  /\ char_dev => Cardinality(Newlines(output')) <= Capacity
         /\ output' \in Seq(Pieces)
         /\ \A c \in Clients : HasPacket(c) => HasPacket(c)'
         /\ \A c \in Clients : x \in {<<c, "nl">>, <<c, "cut">>} => HasPacket(c)'
<1> DEFINE new == Append(file, x)
<1>1. /\ new \in Seq(Pieces) /\ Len(new) = Len(file) + 1 /\ Len(file) \in Nat
      /\ \A i \in 1 .. Len(file) : new[i] = file[i]
      /\ new[Len(file) + 1] = x
  OBVIOUS
<1>2. /\ char_dev => Cardinality(Newlines(Keep(char_dev, new))) <= Capacity
      /\ char_dev /\ Cardinality(Newlines(file)) = Capacity =>
           Cardinality(Newlines(Keep(char_dev, new))) = Capacity
      /\ \/ Keep(char_dev, new) = new
         \/ /\ char_dev /\ Cardinality(Newlines(Keep(char_dev, new))) = Capacity
            /\ \E m \in 1 .. Len(file) : Keep(char_dev, new) = SubSeq(new, m + 1, Len(new))
  BY KeepsNewest
<1>3. Keep(char_dev, new) \in Seq(Pieces)
  <2>1. \A m \in 1 .. Len(file) : SubSeq(new, m + 1, Len(new)) \in Seq(Pieces)
    BY <1>1
  <2> QED  BY <1>1, <1>2, <2>1
<1> HIDE DEF new
<1>4. \/ output' = new /\ (char_dev => output' = Keep(char_dev, new))
      \/ char_dev /\ output' = Keep(char_dev, new) /\ Cardinality(Newlines(output')) = Capacity
  BY <1>2 DEF new
<1>5. char_dev => Cardinality(Newlines(output')) <= Capacity
  BY <1>2, <1>4
<1>6. output' \in Seq(Pieces)
  BY <1>1, <1>3, <1>4
<1>7. ASSUME NEW c \in Clients, HasPacket(c) \/ x \in {<<c, "nl">>, <<c, "cut">>}
      PROVE  HasPacket(c)'
  <2>1. CASE char_dev /\ Cardinality(Newlines(output')) = Capacity
    BY <2>1 DEF HasPacket
  <2>2. CASE output' = new /\ ~(char_dev /\ Cardinality(Newlines(output')) = Capacity)
    <3>1. ~(char_dev /\ Cardinality(Newlines(file)) = Capacity)
      BY <1>2, <1>4, <2>2
    <3>2. \E i \in 1 .. Len(new) : new[i] \in {<<c, "nl">>, <<c, "cut">>}
      <4>1. CASE x \in {<<c, "nl">>, <<c, "cut">>}
        BY <1>1, <4>1
      <4>2. CASE Arrived(c)
        BY <1>1, <4>2 DEF Arrived
      <4> QED  BY <1>7, <3>1, <4>1, <4>2 DEF HasPacket
    <3> QED  BY <2>2, <3>2 DEF HasPacket, Arrived
  <2> QED  BY <1>4, <2>1, <2>2
<1> QED  BY <1>5, <1>6, <1>7

(* receive_data opens or creates the file.                                 *)
LEMMA LogRecvLock ==
  ASSUME LockInv, OutputInv, LogInv, NEW c \in Clients, recv_lock(c) PROVE LogInv'
<1>1. /\ wpc \in [Clients -> WorkerLocs] /\ wpc[c] = "recv_lock"
      /\ UNCHANGED <<char_dev, alarm, shutdown, resp, served>>
  BY DEF recv_lock, AtWorker, LockInv, LockTypes, Others, mainVars, storeVars, sigVars, flagVars,
         respVars
<1>2. char_dev => alarm' = {}
  BY <1>1 DEF LogInv, DeviceHolds
<1>3. CASE UNCHANGED output
  <2>1. wpc'[c] \in {"recv_check", "close"} /\ \A d \in Clients \ {c} : wpc'[d] = wpc[d]
    BY <1>1 DEF recv_lock, Goto, Set
  <2> QED  BY <1>1, <1>2, <1>3, <2>1, LogFrame DEF Finishing
<1>4. CASE output' # output
  <2>1. output = NoFile /\ output' = << >> /\ Goto(c, "recv_check")
    BY <1>4 DEF recv_lock, fileVars
  <2>2. wpc'[c] = "recv_check" /\ \A d \in Clients \ {c} : wpc'[d] = wpc[d]
    BY <1>1, <2>1 DEF Goto, Set
  <2>3. output' # NoFile /\ ~char_dev
    BY <2>1, EmptyFile DEF LogInv, DeviceHolds
  <2>4. \A d \in Clients :
          /\ wpc[d] \notin {"recv_done", "recv_return", "send_lock", "send_check", "send"}
          /\ wpc'[d] \notin {"recv_done", "recv_return", "send_lock", "send_check", "send"}
    BY <2>1, <2>2 DEF LogInv, FileThere
  <2>5. RespOk'
    BY <1>1, <2>2, <2>4 DEF LogInv, RespOk, Sending, Finishing
  <2> QED  BY <1>1, <2>3, <2>4, <2>5 DEF LogInv, FileThere, DeviceHolds, PacketThere
<1> QED  BY <1>3, <1>4

(* What recv does to the output: its write fails, adds only zeroes to      *)
(* zeroes, or appends one piece, and a piece with a newline is the last.   *)
LEMMA RecvWrites ==
  ASSUME LockInv, OutputInv, LogInv, char_dev \in BOOLEAN, NEW c \in Clients, recv(c)
  PROVE  /\ wpc \in [Clients -> WorkerLocs] /\ wpc[c] = "recv" /\ lock = c
         /\ output # NoFile /\ output \in Seq(Pieces) /\ OnlyAtEnd(c, output)
         /\ char_dev => Cardinality(Newlines(output)) <= Capacity
         /\ UNCHANGED <<main, char_dev, alarm, shutdown, resp, served>>
         /\ \A d \in Clients \ {c} : wpc'[d] = wpc[d] /\ ~InFile(d)
         /\ \/ wpc'[c] = "close" /\ UNCHANGED output
            \/ wpc'[c] = "recv_check" /\ UNCHANGED <<lock, output>>
            \/ \E kind \in Kinds :
                 /\ output' = Keep(char_dev, Append(output, <<c, kind>>))
                 /\ UNCHANGED lock
                 /\ \/ wpc'[c] = "recv_done" /\ kind \in {"nl", "cut"}
                    \/ wpc'[c] = "recv_check" /\ kind # "nl"
<1> DEFINE end == wire[c] = << >>
           seg == IF end THEN "zeroes" ELSE Head(wire[c])
<1>1. /\ wpc \in [Clients -> WorkerLocs] /\ wpc[c] = "recv" /\ lock = c
      /\ UNCHANGED <<main, char_dev, alarm, shutdown, resp, served>>
      /\ wire \in [Clients -> Seq(Segments)]
      /\ output # NoFile /\ output \in Seq(Pieces) /\ OnlyAtEnd(c, output)
  BY DEF recv, AtWorker, LockInv, LockTypes, LockMatchesFile, InFile, OutputInv, OutputTypes,
         ReceiverIsLast, mainVars, storeVars, sigVars, flagVars, respVars
<1>2. char_dev => Cardinality(Newlines(output)) <= Capacity
  BY DEF LogInv, DeviceHolds
<1>3. \A d \in Clients \ {c} : wpc'[d] = wpc[d] /\ ~InFile(d)
  BY <1>1 DEF recv, Goto, Set, LockInv, LockMatchesFile
<1>4. seg \in {"zeroes", "full", "short", "nl"}
  BY <1>1 DEF Segments
<1>5. CASE Goto(c, "close") /\ UNCHANGED output
  BY <1>1, <1>2, <1>3, <1>5 DEF Goto, Set
<1>6. CASE /\ \/ output' = Keep(char_dev, Write(output, Piece(c, seg)))
              \/ ~char_dev /\ ~end /\ output' = Write(output, <<c, "cut">>)
           /\ Goto(c, IF seg = "nl" THEN "recv_done" ELSE "recv_check") /\ UNCHANGED lock
  <2>1. wpc'[c] = IF seg = "nl" THEN "recv_done" ELSE "recv_check"
    BY <1>1, <1>6 DEF Goto, Set
  <2>2. PICK kind \in Kinds :
          /\ output' = Keep(char_dev, Write(output, <<c, kind>>))
          /\ seg = "nl" => kind \in {"nl", "cut"}
          /\ seg # "nl" => kind # "nl"
          /\ kind = "zeroes" => seg # "nl"
    <3>1. CASE output' = Keep(char_dev, Write(output, Piece(c, seg)))
      <4>1. PICK kind \in Kinds : Piece(c, seg) = <<c, kind>> /\ (seg = "nl" <=> kind = "nl")
        BY <1>4 DEF Piece, Kinds
      <4> QED  BY <3>1, <4>1 DEF Kinds
    <3>2. CASE ~char_dev /\ output' = Write(output, <<c, "cut">>)
      <4>1. Write(output, <<c, "cut">>) = Keep(char_dev, Write(output, <<c, "cut">>))
        BY <3>2, Zenon DEF Keep
      <4> QED  BY <3>2, <4>1 DEF Kinds
    <3> QED  BY <1>6, <3>1, <3>2
  <2>3. CASE Write(output, <<c, kind>>) = output /\ kind = "zeroes"
    <3>1. Keep(char_dev, output) = output
      BY <1>1, <1>2, KeepsAll
    <3>2. UNCHANGED <<lock, output>> /\ wpc'[c] = "recv_check"
      BY <1>6, <2>1, <2>2, <2>3, <3>1
    <3> QED  BY <1>1, <1>2, <1>3, <3>2
  <2>4. CASE Write(output, <<c, kind>>) = Append(output, <<c, kind>>)
    <3>1. output' = Keep(char_dev, Append(output, <<c, kind>>)) /\ UNCHANGED lock
      BY <1>6, <2>2, <2>4
    <3>2. \/ wpc'[c] = "recv_done" /\ kind \in {"nl", "cut"}
          \/ wpc'[c] = "recv_check" /\ kind # "nl"
      BY <2>1, <2>2
    <3> QED  BY <1>1, <1>2, <1>3, <3>1, <3>2
  <2>5. \/ Write(output, <<c, kind>>) = Append(output, <<c, kind>>)
        \/ Write(output, <<c, kind>>) = output /\ kind = "zeroes"
    BY DEF Write
  <2> QED  BY <2>3, <2>4, <2>5
<1> QED  BY <1>5, <1>6 DEF recv

(* recv appends for the one worker that is in the file.                    *)
LEMMA LogRecv ==
  ASSUME LockInv, OutputInv, LogInv, char_dev \in BOOLEAN, NEW c \in Clients, recv(c) PROVE LogInv'
<1>1. /\ wpc \in [Clients -> WorkerLocs] /\ wpc[c] = "recv"
      /\ output # NoFile /\ output \in Seq(Pieces)
      /\ char_dev => Cardinality(Newlines(output)) <= Capacity
      /\ UNCHANGED <<char_dev, alarm, shutdown, resp, served>>
  BY RecvWrites
<1>2. char_dev => alarm' = {}
  BY <1>1 DEF LogInv, DeviceHolds
<1>3. \A d \in Clients \ {c} : wpc'[d] = wpc[d] /\ wpc[d] \notin {"recv_done", "send_check", "send"}
  BY RecvWrites DEF InFile
<1>4. CASE wpc'[c] \in {"close", "recv_check"} /\ UNCHANGED output
  BY <1>1, <1>2, <1>3, <1>4, LogFrame DEF Finishing
<1>5. ASSUME NEW kind \in Kinds, output' = Keep(char_dev, Append(output, <<c, kind>>)),
             \/ wpc'[c] = "recv_done" /\ kind \in {"nl", "cut"}
             \/ wpc'[c] = "recv_check" /\ kind # "nl"
      PROVE  LogInv'
  <2>1. <<c, kind>> \in Pieces
    BY DEF Pieces
  <2>2. /\ char_dev => Cardinality(Newlines(output')) <= Capacity
        /\ output' \in Seq(Pieces)
        /\ \A d \in Clients : HasPacket(d) => HasPacket(d)'
        /\ \A d \in Clients : <<c, kind>> \in {<<d, "nl">>, <<d, "cut">>} => HasPacket(d)'
    BY <1>1, <1>5, <2>1, PacketStays
  <2>3. output' # NoFile
    BY <2>2, ServerAssumption
  <2>4. wpc'[c] = "recv_done" => HasPacket(c)'
    BY <1>5, <2>2
  <2>5. PacketThere'
    BY <1>1, <1>3, <1>5, <2>2, <2>4 DEF LogInv, PacketThere
  <2>6. RespOk'
    <3>1. \A d \in Clients : wpc'[d] \notin Sending
      BY <1>3, <1>5 DEF Sending
    <3>2. \A d \in Clients : wpc'[d] \in Finishing <=> wpc[d] \in Finishing
      BY <1>1, <1>3, <1>5 DEF Finishing
    <3>3. resp[c] = << >>
      BY <1>1 DEF LogInv, RespOk, Sending, Finishing
    <3> QED  BY <1>1, <1>3, <3>1, <3>2, <3>3 DEF LogInv, RespOk, Sending
  <2> QED  BY <1>1, <1>2, <2>2, <2>3, <2>5, <2>6 DEF LogInv, FileThere, DeviceHolds
<1> QED  BY <1>4, <1>5, RecvWrites

(* send adds the next piece the output returns, or ends the answer.        *)
LEMMA LogSend ==
  ASSUME LockInv, OutputInv, LogInv, NEW c \in Clients, send(c) PROVE LogInv'
<1> DEFINE file == Readable(char_dev, output)
           n    == Len(resp[c]) + 1
<1>1. /\ wpc \in [Clients -> WorkerLocs] /\ wpc[c] = "send"
      /\ UNCHANGED <<char_dev, alarm, shutdown, output>>
      /\ output # NoFile /\ output \in Seq(Pieces)
      /\ resp \in [Clients -> Seq(Pieces)] /\ SentSoFar(c, file)
  BY DEF send, AtWorker, LockInv, LockTypes, OutputInv, OutputTypes, LogInv, FileThere, RespOk,
         Sending, mainVars, storeVars, sigVars, flagVars
<1>2. /\ file \in Seq(Pieces) /\ Len(file) \in Nat
  BY <1>1, ReadableIsSeq
<1>3. wpc'[c] \in {"send_check", "close"} /\ \A d \in Clients \ {c} : wpc'[d] = wpc[d]
  BY <1>1 DEF send, SendEnd, Goto, Set
<1>4. FileThere' /\ DeviceHolds' /\ PacketThere'
  <2>1. \A d \in Clients : HasPacket(d)' <=> HasPacket(d)
    BY <1>1 DEF HasPacket, Arrived
  <2> QED  BY <1>1, <1>3, <2>1 DEF LogInv, FileThere, DeviceHolds, PacketThere
<1>5. Readable(char_dev, output)' = file
  BY <1>1
<1> HIDE DEF file
<1>6. CASE n <= Len(file)
  <2>1. /\ resp' = [resp EXCEPT ![c] = Append(resp[c], file[n])] /\ wpc'[c] = "send_check"
        /\ UNCHANGED served
    BY <1>1, <1>6 DEF send, Set, Goto, file
  <2>2. n \in 1 .. Len(file) /\ Len(resp[c]) \in Nat /\ resp[c] \in Seq(Pieces)
    BY <1>1, <1>2, <1>6
  <2>3. file[n] \in Pieces
    BY <1>2, <2>2
  <2>4. /\ resp'[c] \in Seq(Pieces) /\ Len(resp'[c]) = n
        /\ \A i \in 1 .. Len(resp[c]) : resp'[c][i] = resp[c][i]
        /\ resp'[c][n] = file[n]
    BY <1>1, <2>1, <2>2, <2>3
  <2>5. Len(resp'[c]) <= Len(file) /\ \A i \in 1 .. Len(resp'[c]) : resp'[c][i] = file[i]
    <3>1. \A i \in 1 .. n : i \in 1 .. Len(resp[c]) \/ i = n
      BY <2>2
    <3>2. \A i \in 1 .. Len(resp[c]) : resp'[c][i] = file[i]
      BY <1>1, <2>4 DEF SentSoFar
    <3> QED  BY <1>6, <2>4, <3>1, <3>2
  <2>6. resp' \in [Clients -> Seq(Pieces)] /\ \A d \in Clients \ {c} : resp'[d] = resp[d]
    BY <1>1, <2>1, <2>4
  <2>7. RespOk'
    <3>1. \A d \in Clients : wpc'[d] \in Sending => SentSoFar(d, Readable(char_dev, output))'
      <4> SUFFICES ASSUME NEW d \in Clients, wpc'[d] \in Sending
                   PROVE  /\ Len(resp'[d]) <= Len(file)
                          /\ \A i \in 1 .. Len(resp'[d]) : resp'[d][i] = file[i]
        BY <1>5 DEF SentSoFar
      <4>1. CASE d = c
        BY <2>5, <4>1
      <4>2. CASE d # c
        BY <1>3, <2>6, <4>2 DEF LogInv, RespOk, SentSoFar, file
      <4> QED  BY <4>1, <4>2
    <3>2. \A d \in Clients : d \in served => wpc'[d] \in Finishing
      BY <1>1, <1>3 DEF LogInv, RespOk, Finishing
    <3>3. \A d \in Clients : wpc'[d] \notin Sending \cup Finishing => resp'[d] = << >>
      BY <1>3, <2>1, <2>6 DEF LogInv, RespOk, Sending
    <3> QED  BY <2>1, <2>6, <3>1, <3>2, <3>3 DEF RespOk
  <2> QED  BY <1>4, <2>7 DEF LogInv
<1>7. CASE ~(n <= Len(file))
  <2>1. UNCHANGED resp /\ served' = served \cup {c} /\ wpc'[c] = "close"
    BY <1>1, <1>7 DEF send, Set, Goto, SendEnd, file
  <2>2. RespOk'
    <3>1. \A d \in Clients : wpc'[d] \in Sending => d # c /\ wpc[d] \in Sending
      BY <1>3, <2>1 DEF Sending
    <3>2. \A d \in Clients : wpc'[d] \in Sending => SentSoFar(d, Readable(char_dev, output))'
      BY <1>5, <2>1, <3>1 DEF LogInv, RespOk, SentSoFar, file
    <3>3. \A d \in Clients : d \in served' => wpc'[d] \in Finishing
      BY <1>3, <2>1 DEF LogInv, RespOk, Finishing
    <3>4. \A d \in Clients : wpc'[d] \notin Sending \cup Finishing => resp[d] = << >>
      BY <1>3, <2>1 DEF LogInv, RespOk, Finishing
    <3> QED  BY <1>1, <2>1, <3>2, <3>3, <3>4 DEF RespOk
  <2> QED  BY <1>4, <2>2 DEF LogInv
<1> QED  BY <1>6, <1>7

(* The other steps of a worker.                                            *)
LEMMA LogWorker ==
  ASSUME LockInv, OutputInv, LogInv, char_dev \in BOOLEAN, NEW c \in Clients, WorkerStep(c)
  PROVE  LogInv'
<1>1. CASE recv_lock(c) \/ recv(c) \/ send(c)
  BY <1>1, LogRecvLock, LogRecv, LogSend
<1>2. CASE ~recv_lock(c) /\ ~recv(c) /\ ~send(c)
  <2>1. UNCHANGED <<output, shutdown, resp, served>>
    BY <1>2 DEF WorkerStep, Others, fileVars, flagVars, respVars, workVars, recv_check,
                recv_error, recv_done, recv_return, send_lock, send_check, send_error,
                send_sigpipe, close_client, worker_exit, worker_end
  <2>2. /\ UNCHANGED <<alarm, char_dev>> /\ \A d \in Clients \ {c} : wpc'[d] = wpc[d]
    BY WorkerMoves
  <2>3. wpc[c] = "recv_check" => output # NoFile
    BY DEF OutputInv, ReceiverIsLast
  <2>4. \/ wpc'[c] = wpc[c]
        \/ /\ wpc[c] \in {"none", "recv_lock", "recv_check", "recv"}
           /\ wpc'[c] \in {"recv_lock", "recv_check", "recv"}
        \/ wpc[c] = "recv_check" /\ wpc'[c] = "recv_done" /\ shutdown[c] /\ output # NoFile
        \/ wpc[c] = "recv_done" /\ wpc'[c] = "recv_return"
        \/ wpc[c] = "recv_return" /\ wpc'[c] = "send_lock" /\ ~shutdown[c]
        \/ wpc[c] = "send_lock" /\ wpc'[c] = "send_check"
        \/ wpc[c] = "send_check" /\ wpc'[c] = "send"
        \/ wpc'[c] \in Finishing
    <3> USE DEF AtWorker, Goto, Set, LockInv, LockTypes, Finishing
    <3>1. CASE recv_check(c) \/ recv_error(c) \/ recv_done(c) \/ recv_return(c) \/ send_lock(c)
      BY <2>3, <3>1 DEF recv_check, recv_error, recv_done, recv_return, send_lock
    <3>2. CASE send_check(c) \/ send_error(c)
      BY <3>2 DEF send_check, send_error, SendEnd
    <3>3. CASE send_sigpipe(c) \/ close_client(c) \/ worker_exit(c) \/ worker_end(c)
      BY <3>3 DEF send_sigpipe, close_client, worker_exit, worker_end, workVars
    <3> QED  BY <1>2, <3>1, <3>2, <3>3 DEF WorkerStep
  <2>5. char_dev => alarm' = {}
    BY <2>2 DEF LogInv, DeviceHolds
  <2> QED  BY <2>1, <2>2, <2>4, <2>5, LogFrame
<1> QED  BY <1>1, <1>2

(* The handler has the mutex, so nobody is answering.                      *)
LEMMA LogAlarm ==
  ASSUME LockInv, OutputInv, LogInv, char_dev \in BOOLEAN, NEW t \in Threads, alarm_handler(t)
  PROVE  LogInv'
<1>1. /\ UNCHANGED <<wpc, shutdown, resp, served, char_dev>> /\ lock = NULL /\ t \in alarm
      /\ alarm' = alarm \ {t}
  BY DEF alarm_handler, HandlerMayWrite, workVars, mainVars, storeVars, flagVars, respVars
<1>2. ~char_dev
  BY <1>1 DEF LogInv, DeviceHolds
<1>3. \A c \in Clients : wpc[c] \notin {"recv_check", "recv", "recv_done", "send_check", "send"}
  BY <1>1, ServerAssumption DEF LockInv, LockMatchesFile, InFile, Threads
<1>4. CASE UNCHANGED output
  BY <1>1, <1>2, <1>4, LogFrame
<1>5. ASSUME NEW kind \in {"stamp", "cut"}, output' = Stamped(kind) PROVE LogInv'
  <2>1. PICK file \in Seq(Pieces) :
          output' = Append(file, <<Main, kind>>) /\ (output # NoFile => file = output)
    BY <1>5, EmptyFile DEF Stamped, OutputInv, OutputTypes
  <2>2. <<Main, kind>> \in Pieces
    BY DEF Pieces
  <2>3. output' \in Seq(Pieces) /\ output' # NoFile
    <3>1. output' \in Seq(Pieces)
      BY <2>1, <2>2
    <3> QED  BY <3>1, ServerAssumption
  <2>4. PacketThere'
    <3>1. output # NoFile => \A c \in Clients : HasPacket(c) => HasPacket(c)'
      BY <1>1, <1>2, <2>1, <2>2, PacketStays
    <3>2. output = NoFile => \A c \in Clients : wpc[c] \notin {"recv_return", "send_lock"}
      BY DEF LogInv, FileThere
    <3> QED  BY <1>1, <1>3, <3>1, <3>2 DEF LogInv, PacketThere
  <2>5. RespOk'
    BY <1>1, <1>3 DEF LogInv, RespOk, Sending
  <2> QED  BY <1>1, <1>2, <2>3, <2>4, <2>5 DEF LogInv, FileThere, DeviceHolds
<1> QED  BY <1>4, <1>5 DEF alarm_handler

(* The main thread deletes the file when no worker is left to answer.      *)
LEMMA LogMain ==
  ASSUME LockInv, FreedIsOver, ListInv, ListInv', OutputInv, OtherTypes, LogInv, MainStep
  PROVE  LogInv'
<1>1. UNCHANGED <<alarm, char_dev>>
  BY MainMoves
<1>2. char_dev => alarm' = {}
  BY <1>1 DEF LogInv, DeviceHolds
<1>3. CASE shutdown_unlink
  <2>1. /\ UNCHANGED <<wpc, freed, shutdown, resp, served>> /\ main' = "return"
        /\ output' = output \/ (~char_dev /\ output' = NoFile)
    BY <1>3 DEF shutdown_unlink, workVars, flagVars, respVars
  <2>2. CASE UNCHANGED output
    BY <1>1, <1>2, <2>1, <2>2, LogFrame
  <2>3. CASE ~char_dev /\ output' = NoFile
    <3>1. \A d \in Clients : wpc[d] \in {"none", "dead"}
      BY <2>1 DEF ListInv, AllJoined, FreedIsOver
    <3> QED
      BY <1>1, <2>1, <2>3, <3>1 DEF LogInv, FileThere, DeviceHolds, PacketThere, RespOk, Sending
  <2> QED  BY <2>1, <2>2, <2>3
<1>4. CASE ~shutdown_unlink
  <2>1. UNCHANGED <<output, resp, served>>
    BY <1>4 DEF MainStep, Control, start, server_init, srv_bind, srv_listen, run_start,
         run_loop, accept_enter, accept_client, start_worker, insert_worker, check_worker,
         check_join, check_end, Join, shutdown_begin, stop_worker, stop_join,
         run_return, fileVars, workVars, respVars
  <2>2. \A c \in Clients : shutdown[c] => shutdown'[c]
    <3>1. UNCHANGED shutdown \/ shutdown' = Set(shutdown, subject, TRUE)
      BY <1>4 DEF MainStep, Control, start, server_init, srv_bind, srv_listen, run_start,
         run_loop, accept_enter, accept_client, start_worker, insert_worker, check_worker,
         check_join, check_end, Join, shutdown_begin, stop_worker, stop_join,
         run_return, workVars, flagVars
    <3> QED  BY <3>1 DEF OtherTypes, Set
  <2>3. \A c \in Clients : wpc'[c] = wpc[c] \/ (wpc[c] = "none" /\ wpc'[c] = "recv_lock")
    <3>1. UNCHANGED wpc \/ (wpc' = Set(wpc, subject, "recv_lock") /\ main = "spawn")
      BY <1>4 DEF MainStep, Control, start, server_init, srv_bind, srv_listen, run_start,
         run_loop, accept_enter, accept_client, start_worker, insert_worker, check_worker,
         check_join, check_end, Join, shutdown_begin, stop_worker, stop_join,
         run_return, workVars, AtMain
    <3> QED  BY <3>1 DEF LockInv, LockTypes, SpawnsOnce, Set
  <2> QED  BY <1>1, <1>2, <2>1, <2>2, <2>3, LogFrame
<1> QED  BY <1>3, <1>4

(* Every step keeps it.                                                    *)
LEMMA LogNext ==
  LockInv /\ FreedIsOver /\ ListInv /\ ListInv' /\ OutputInv /\ OtherTypes /\ LogInv /\ [Next]_vars
    => LogInv'
<1> SUFFICES ASSUME LockInv, FreedIsOver, ListInv, ListInv', OutputInv, OtherTypes, LogInv,
                    [Next]_vars
             PROVE  LogInv'
  OBVIOUS
<1>1. char_dev \in BOOLEAN
  BY ServerAssumption DEF OtherTypes
<1>2. CASE \/ signal_handler \/ signal_default \/ timer_expires \/ UNCHANGED vars
           \/ \E c \in Clients : ClientStep(c)
  <2>1. UNCHANGED <<output, wpc, shutdown, resp, served, char_dev>>
    BY <1>2 DEF signal_handler, signal_default, timer_expires, ClientStep, client_connect,
                client_send, client_read, client_leave, vars, fileVars, workVars, mainVars,
                storeVars, flagVars, respVars
  <2>2. char_dev => alarm' = {}
    <3>1. timer # "off" \/ UNCHANGED alarm
      BY <1>2 DEF signal_handler, signal_default, timer_expires, ClientStep, client_connect,
                  client_send, client_read, client_leave, vars, sigVars
    <3> QED  BY <3>1 DEF LogInv, DeviceHolds, OtherTypes
  <2> QED  BY <2>1, <2>2, LogFrame
<1> QED  BY <1>1, <1>2, LogMain, LogAlarm, LogWorker DEF Next

(* A receiver has not written its newline.                                 *)
PacketOpen ==
  \A c \in Clients :
    wpc[c] \in {"recv_check", "recv"} => \A i \in 1 .. Len(output) : output[i] # <<c, "nl">>

(* Nobody receives at the start.                                           *)
LEMMA OpenInit == Init => PacketOpen
  BY DEF Init, PacketOpen

(* Whoever writes a newline stops receiving.                               *)
LEMMA OpenNext ==
  LockInv /\ OutputInv /\ OutputInv' /\ OtherTypes /\ LogInv /\ PacketOpen /\ [Next]_vars
    => PacketOpen'
<1> SUFFICES ASSUME LockInv, OutputInv, OutputInv', OtherTypes, LogInv, PacketOpen, [Next]_vars
             PROVE  PacketOpen'
  OBVIOUS
<1>0. char_dev \in BOOLEAN
  BY ServerAssumption DEF OtherTypes
<1>1. ASSUME NEW c \in Clients, recv(c) PROVE PacketOpen'
  <2>1. /\ wpc[c] = "recv" /\ output \in Seq(Pieces)
        /\ \A d \in Clients \ {c} : wpc'[d] \notin {"recv_check", "recv"}
    BY <1>0, <1>1, RecvWrites DEF InFile
  <2>2. \A i \in 1 .. Len(output) : output[i] # <<c, "nl">>
    BY <2>1 DEF PacketOpen
  <2>3. CASE UNCHANGED output
    BY <2>1, <2>2, <2>3 DEF PacketOpen
  <2>4. CASE wpc'[c] \notin {"recv_check", "recv"}
    BY <2>1, <2>4 DEF PacketOpen
  <2>5. ASSUME NEW kind \in Kinds, kind # "nl",
               output' = Keep(char_dev, Append(output, <<c, kind>>))
        PROVE  PacketOpen'
    <3>1. PICK all \in Seq(Pieces) :
            /\ all = Append(output, <<c, kind>>)
            /\ \A i \in 1 .. Len(all) : all[i] # <<c, "nl">>
      <4>1. /\ Append(output, <<c, kind>>) \in Seq(Pieces)
            /\ Len(Append(output, <<c, kind>>)) = Len(output) + 1
            /\ \A i \in 1 .. Len(output) : Append(output, <<c, kind>>)[i] = output[i]
            /\ Append(output, <<c, kind>>)[Len(output) + 1] = <<c, kind>>
        BY <2>1 DEF Pieces
      <4>2. \A i \in 1 .. Len(output) + 1 : Append(output, <<c, kind>>)[i] # <<c, "nl">>
        <5>1. \A i \in 1 .. Len(output) + 1 : i \in 1 .. Len(output) \/ i = Len(output) + 1
          BY <2>1
        <5>2. <<c, kind>> # <<c, "nl">>
          BY <2>5
        <5> QED  BY <2>2, <4>1, <5>1, <5>2
      <4> QED  BY <4>1, <4>2
    <3>2. PICK n \in 0 .. Len(all) : output' = SubSeq(all, n + 1, Len(all))
      BY <2>5, <3>1, KeepIsSuffix
    <3>3. \A i \in 1 .. Len(output') : output'[i] = all[i + n] /\ i + n \in 1 .. Len(all)
      BY <3>2
    <3> QED  BY <2>1, <3>1, <3>3 DEF PacketOpen
  <2> QED  BY <1>0, <1>1, <2>3, <2>4, <2>5, RecvWrites
<1>2. ASSUME NEW c \in Clients, recv_lock(c) PROVE PacketOpen'
  <2>1. /\ wpc \in [Clients -> WorkerLocs] /\ wpc[c] = "recv_lock" /\ lock = NULL
        /\ \A d \in Clients \ {c} : wpc'[d] = wpc[d]
    BY <1>2 DEF recv_lock, AtWorker, Goto, Set, LockInv, LockTypes
  <2>2. \A d \in Clients : wpc[d] \notin {"recv_check", "recv"}
    BY <2>1, ServerAssumption DEF LockInv, LockMatchesFile, InFile, Threads
  <2>3. CASE output' = << >>
    BY <2>3 DEF PacketOpen
  <2>4. CASE output' = output /\ output # NoFile
    BY <2>1, <2>2, <2>4 DEF PacketOpen, OutputInv, NotWrittenYet, NoneOf
  <2>5. CASE wpc'[c] = "close"
    BY <2>1, <2>2, <2>5 DEF PacketOpen
  <2> QED  BY <1>2, <2>1, <2>3, <2>4, <2>5 DEF recv_lock, Goto, Set
<1>3. ASSUME NEW c \in Clients, WorkerStep(c), ~recv(c), ~recv_lock(c) PROVE PacketOpen'
  <2>1. UNCHANGED output
    BY <1>3 DEF WorkerStep, Others, fileVars, recv_check, recv_error, recv_done,
                recv_return, send_lock, send_check, send, send_error, send_sigpipe,
                close_client, worker_exit, worker_end
  <2>2. \A d \in Clients : wpc'[d] \in {"recv_check", "recv"} => wpc[d] \in {"recv_check", "recv"}
    <3> USE DEF AtWorker, Goto, Set, LockInv, LockTypes
    <3>1. CASE recv_check(c) \/ recv_error(c) \/ recv_done(c) \/ recv_return(c) \/ send_lock(c)
      BY <3>1 DEF recv_check, recv_error, recv_done, recv_return, send_lock
    <3>2. CASE send_check(c) \/ send(c) \/ send_error(c)
      BY <3>2 DEF send_check, send, send_error, SendEnd
    <3>3. CASE send_sigpipe(c) \/ close_client(c) \/ worker_exit(c) \/ worker_end(c)
      BY <3>3 DEF send_sigpipe, close_client, worker_exit, worker_end, workVars
    <3> QED  BY <1>3, <3>1, <3>2, <3>3 DEF WorkerStep
  <2> QED  BY <2>1, <2>2 DEF PacketOpen
<1>4. CASE \A c \in Clients : ~WorkerStep(c)
  <2>1. \A d \in Clients : wpc'[d] \in {"recv_check", "recv"} => wpc[d] = wpc'[d]
    BY <1>4, OtherMoves
  <2>2. CASE UNCHANGED output
    BY <2>1, <2>2 DEF PacketOpen
  <2>3. CASE \E t \in Threads : alarm_handler(t)
    <3>1. \A d \in Clients : wpc[d] \notin {"recv_check", "recv"}
      BY <2>3, ServerAssumption
      DEF alarm_handler, HandlerMayWrite, LockInv, LockMatchesFile, InFile, Threads
    <3> QED  BY <2>1, <3>1 DEF PacketOpen
  <2>4. CASE shutdown_unlink
    <3>1. UNCHANGED output \/ output' = NoFile
      BY <2>4 DEF shutdown_unlink
    <3> QED  BY <2>2, <3>1 DEF PacketOpen, OutputInv, ReceiverIsLast
  <2>5. \/ UNCHANGED output \/ shutdown_unlink \/ \E t \in Threads : alarm_handler(t)
    BY <1>4 DEF Next, MainStep, Control, start, server_init, srv_bind, srv_listen, run_start,
         run_loop, accept_enter, accept_client, start_worker, insert_worker, check_worker,
         check_join, check_end, Join, shutdown_begin, stop_worker, stop_join,
         run_return, fileVars, signal_handler, signal_default, timer_expires, ClientStep,
         client_connect, client_send, client_read, client_leave, vars
  <2> QED  BY <2>2, <2>3, <2>4, <2>5
<1> QED  BY <1>1, <1>2, <1>3, <1>4

-----------------------------------------------------------------------------
(* PacketLog speaks of the same store.                                     *)
LEMMA SameStore ==
  ASSUME NEW device, NEW out
  PROVE  /\ Packets!Newlines(out) = Newlines(out)
         /\ Packets!Cardinality(Newlines(out)) = Cardinality(Newlines(out))
         /\ Packets!Keep(device, out) = Keep(device, out)
         /\ Packets!Readable(device, out) = Readable(device, out)
         /\ Packets!Range(out) = Range(out)
<1>1. Packets!Newlines(out) = Newlines(out)
  BY DEF Packets!Newlines, Newlines
<1>2. \A S : Packets!Min(S) = Min(S) /\ Packets!Max(S) = Max(S)
  BY Zenon DEF Packets!Min, Min, Packets!Max, Max
<1>3. \A S : Packets!Cardinality(S) = Cardinality(S)
  BY Zenon DEF Packets!Cardinality, Cardinality
<1>4. Packets!Range(out) = Range(out)
  BY Zenon DEF Packets!Range, Range
<1> QED BY <1>1, <1>2, <1>3, <1>4, Zenon DEF Packets!Keep, Keep, Packets!Readable, Readable

(* What PacketLog sees of a state, and a step of PacketLog or none.        *)
logVars == <<char_dev, Log, unlinked, Answers>>
LogStep == Packets!Next \/ UNCHANGED logVars

(* A worker takes a step only while the server is not through.             *)
LEMMA WorkerNotDeleted ==
  ASSUME LockInv, FreedIsOver, StopInv, ListInv, NEW c \in Clients, WorkerStep(c)
  PROVE  ~unlinked /\ UNCHANGED unlinked
<1>1. wpc[c] \notin {"none", "dead"} /\ UNCHANGED unlinked
  BY WorkerMoves
<1>2. main \notin {"return", "stopped"}
  BY <1>1 DEF ListInv, AllJoined, FreedIsOver
<1> QED  BY <1>1, <1>2 DEF StopInv, FileDeleted

(* The log is the output, but for the packet of the one that receives.     *)
LEMMA LogIs ==
  ASSUME LockInv, OutputInv
  PROVE  /\ output = NoFile => Log = << >>
         /\ output # NoFile /\ (\A d \in Clients : wpc[d] \notin {"recv_check", "recv"}) =>
              Log = output
         /\ \A c \in Clients : wpc[c] \in {"recv_check", "recv"} => Log = Before(c, output)
<1>1. \A c \in Clients : wpc[c] \in {"recv_check", "recv"} => lock = c /\ output # NoFile
  BY DEF LockInv, LockMatchesFile, InFile, OutputInv, ReceiverIsLast
<1> QED  BY <1>1 DEF Log, Receiving

(* A step that leaves the output alone, with the same worker receiving.    *)
LEMMA LogSame ==
  ASSUME LockInv, LockInv', OutputInv, OutputInv', UNCHANGED output,
         \A c \in Clients : wpc[c] \in {"recv_check", "recv"} <=> wpc'[c] \in {"recv_check", "recv"}
  PROVE  UNCHANGED Log
<1>1. CASE \E c \in Clients : wpc[c] \in {"recv_check", "recv"}
  <2>1. PICK c \in Clients : wpc[c] \in {"recv_check", "recv"}
    BY <1>1
  <2>2. lock = c /\ lock' = c
    BY <2>1 DEF LockInv, LockMatchesFile, InFile
  <2> QED  BY <2>1, <2>2 DEF Log, Receiving
<1>2. CASE ~\E c \in Clients : wpc[c] \in {"recv_check", "recv"}
  BY <1>2 DEF Log, Receiving
<1> QED  BY <1>1, <1>2

(* A packet is over.                                                       *)
LEMMA StepPacket ==
  ASSUME NEW c \in Clients, ~unlinked, UNCHANGED <<char_dev, unlinked, Answers>>,
         AddsPacket(c, char_dev, Log, Log')
  PROVE  LogStep
<1>1. NoneOf(c, Log)
  BY DEF AddsPacket
<1>2. PICK n \in 1 .. Len(Log') :
       /\ \A i \in 1 .. Len(SubSeq(Log', n, Len(Log'))) : SubSeq(Log', n, Len(Log'))[i][1] = c
       /\ Log' = Keep(char_dev, Log \o SubSeq(Log', n, Len(Log')))
  BY DEF AddsPacket
<1>3. Log' = Packets!Keep(char_dev, Log \o SubSeq(Log', n, Len(Log')))
  BY <1>2, SameStore
<1>4. Packets!Packet(c)
  BY <1>1, <1>2, <1>3, Zenon DEF Packets!Packet, NoneOf
<1> QED  BY <1>4 DEF LogStep, Packets!Next

(* The end of a packet to which the last step added nothing.               *)
LEMMA StepPacketEnds ==
  ASSUME LockInv, LockInv', FreedIsOver, StopInv, ListInv, OutputInv, OutputInv', LogInv,
         NEW c \in Clients, WorkerStep(c), UNCHANGED <<output, char_dev, resp, served>>,
         wpc[c] \in {"recv_check", "recv"}, wpc'[c] \notin {"recv_check", "recv"}
  PROVE  LogStep
<1>1. output # NoFile /\ output \in Seq(Pieces) /\ OnlyAtEnd(c, output)
  BY DEF OutputInv, OutputTypes, ReceiverIsLast
<1>2. char_dev => Cardinality(Newlines(output)) <= Capacity
  BY DEF LogInv, DeviceHolds
<1>3. Log = Before(c, output)
  BY LogIs
<1>4. \A d \in Clients : wpc'[d] \notin {"recv_check", "recv"}
  BY WorkerMoves DEF LockInv, LockMatchesFile, InFile
<1>5. Log' = output
  BY <1>1, <1>4 DEF Log, Receiving
<1>6. UNCHANGED <<char_dev, unlinked, Answers>> /\ ~unlinked
  BY WorkerNotDeleted DEF Answers
<1> QED  BY <1>1, <1>2, <1>3, <1>5, <1>6, EndOfPacket, StepPacket DEF LogStep, logVars
(* A worker that begins to receive has nothing in the file, which it may   *)
(* just have created.                                                      *)
LEMMA StepRecvLock ==
  ASSUME LockInv, LockInv', FreedIsOver, StopInv, ListInv, OutputInv, OutputInv',
         NEW c \in Clients, recv_lock(c)
  PROVE  LogStep
<1>1. /\ wpc \in [Clients -> WorkerLocs] /\ wpc[c] = "recv_lock" /\ lock = NULL
      /\ UNCHANGED <<char_dev, resp, served>>
      /\ \A d \in Clients \ {c} : wpc'[d] = wpc[d]
  BY DEF recv_lock, AtWorker, Goto, Set, LockInv, LockTypes, Others, mainVars, storeVars, respVars
<1>2. \A d \in Clients : wpc[d] \notin {"recv_check", "recv"}
  BY <1>1, ServerAssumption DEF LockInv, LockMatchesFile, InFile, Threads
<1>3. UNCHANGED <<char_dev, unlinked, Answers>>
  BY <1>1, WorkerNotDeleted DEF Answers, WorkerStep
<1>4. CASE wpc'[c] = "close" /\ UNCHANGED output
  <2>1. UNCHANGED Log
    BY <1>1, <1>2, <1>4, LogSame
  <2> QED  BY <1>3, <2>1 DEF LogStep, logVars
<1>5. CASE wpc'[c] = "recv_check" /\ output' = IF output = NoFile THEN << >> ELSE output
  <2>1. Log' = Before(c, output')
    BY <1>5 DEF Log, Receiving, LockInv, LockMatchesFile, InFile, OutputInv, ReceiverIsLast
  <2>2. /\ output' \in Seq(Pieces) /\ NoneOf(c, output')
        /\ Log = output'
    BY <1>1, <1>2, <1>5, LogIs, EmptyFile DEF OutputInv, OutputTypes, NotWrittenYet
  <2>3. UNCHANGED Log
    BY <2>1, <2>2, BeforeNone
  <2> QED  BY <1>3, <2>3 DEF LogStep, logVars
<1> QED  BY <1>1, <1>4, <1>5 DEF recv_lock, Goto, Set, fileVars

(* A buffer in the middle of a packet does not show in the log; the one    *)
(* that ends it shows the packet.                                          *)
LEMMA StepRecv ==
  ASSUME LockInv, LockInv', FreedIsOver, StopInv, ListInv, OutputInv, OutputInv', LogInv, PacketOpen,
         char_dev \in BOOLEAN, NEW c \in Clients, recv(c)
  PROVE  LogStep
<1>1. /\ wpc \in [Clients -> WorkerLocs] /\ wpc[c] = "recv" /\ lock = c
      /\ output # NoFile /\ output \in Seq(Pieces) /\ OnlyAtEnd(c, output)
      /\ char_dev => Cardinality(Newlines(output)) <= Capacity
      /\ UNCHANGED <<main, char_dev, resp, served>>
      /\ \A d \in Clients \ {c} : wpc'[d] = wpc[d] /\ ~InFile(d)
  BY RecvWrites
<1>2. WorkerStep(c)
  BY DEF WorkerStep
<1>3. UNCHANGED <<char_dev, unlinked, Answers>> /\ ~unlinked
  BY <1>1, <1>2, WorkerNotDeleted DEF Answers
<1>4. Log = Before(c, output)
  BY <1>1, LogIs
<1>5. CASE wpc'[c] = "close" /\ UNCHANGED output
  BY <1>1, <1>2, <1>5, StepPacketEnds
<1>6. CASE wpc'[c] = "recv_check" /\ UNCHANGED output
  <2>1. UNCHANGED Log
    BY <1>1, <1>6, LogSame
  <2> QED  BY <1>3, <2>1 DEF LogStep, logVars
<1>7. ASSUME NEW kind \in Kinds, output' = Keep(char_dev, Append(output, <<c, kind>>)),
             wpc'[c] = "recv_check", kind # "nl"
      PROVE  LogStep
  <2>0. Append(output, <<c, kind>>) \in Seq(Pieces)
    BY <1>1 DEF Pieces
  <2>1. PICK all \in Seq(Pieces) : all = Append(output, <<c, kind>>)
    BY <2>0
  <2>2. Newlines(all) = Newlines(output)
    BY <1>1, <1>7, <2>1, NewlinesOfAppend DEF Pieces
  <2>3. output' = all
    BY <1>1, <1>7, <2>1, <2>2, KeepsAll
  <2>4. Before(c, all) = Before(c, output)
    BY <1>1, <2>1, BeforeAppend
  <2>5. Log' = Before(c, output')
    BY <1>7 DEF Log, Receiving, LockInv, LockMatchesFile, InFile, OutputInv, ReceiverIsLast
  <2> QED  BY <1>3, <1>4, <2>3, <2>4, <2>5 DEF LogStep, logVars
<1>8. ASSUME NEW kind \in Kinds, output' = Keep(char_dev, Append(output, <<c, kind>>)),
             wpc'[c] = "recv_done"
      PROVE  LogStep
  <2>1. \A i \in 1 .. Len(output) : output[i] # <<c, "nl">>
    BY <1>1 DEF PacketOpen
  <2>2. AddsPacket(c, char_dev, Before(c, output), output')
    BY <1>1, <1>8, <2>1, EndWithPiece
  <2>3. \A d \in Clients : wpc'[d] \notin {"recv_check", "recv"}
    BY <1>1, <1>8 DEF InFile
  <2>4. output' # NoFile
    <3>1. Append(output, <<c, kind>>) \in Seq(Pieces)
      BY <1>1 DEF Pieces
    <3>2. PICK all \in Seq(Pieces) : all = Append(output, <<c, kind>>)
      BY <3>1
    <3>3. PICK n \in 0 .. Len(all) : output' = SubSeq(all, n + 1, Len(all))
      BY <1>8, <3>2, KeepIsSuffix
    <3>4. output' \in Seq(Pieces)
      BY <3>3, SuffixKeeps
    <3> QED  BY <3>4, ServerAssumption
  <2>5. Log' = output'
    BY <2>3, <2>4 DEF Log, Receiving
  <2> QED  BY <1>3, <1>4, <2>2, <2>5, StepPacket
<1> QED  BY <1>5, <1>6, <1>7, <1>8, RecvWrites

(* The end of a response answers the client, with all that the output      *)
(* returns now: nobody has written since the first piece was sent.         *)
LEMMA StepSend ==
  ASSUME LockInv, LockInv', FreedIsOver, StopInv, ListInv, OutputInv, OutputInv', OtherTypes, LogInv,
         NEW c \in Clients, send(c)
  PROVE  LogStep
<1> DEFINE file == Readable(char_dev, output)
           n    == Len(resp[c]) + 1
<1>1. /\ wpc \in [Clients -> WorkerLocs] /\ wpc[c] = "send" /\ lock = c
      /\ UNCHANGED <<char_dev, output>>
      /\ output # NoFile /\ output \in Seq(Pieces)
      /\ resp \in [Clients -> Seq(Pieces)] /\ SentSoFar(c, file)
      /\ c \notin served /\ served \subseteq Clients /\ HasPacket(c)
  BY DEF send, AtWorker, LockInv, LockTypes, LockMatchesFile, InFile, OutputInv, OutputTypes,
         LogInv, FileThere, RespOk, PacketThere, OtherTypes, Sending, Finishing, mainVars, storeVars
<1>2. \A d \in Clients :
        wpc[d] \notin {"recv_check", "recv"} /\ wpc'[d] \notin {"recv_check", "recv"}
  BY <1>1 DEF send, SendEnd, Goto, Set, LockInv, LockMatchesFile, InFile
<1>3. Log = output /\ UNCHANGED Log
  BY <1>1, <1>2, LogSame, LogIs
<1>4. UNCHANGED unlinked /\ ~unlinked
  BY WorkerNotDeleted DEF WorkerStep
<1>5. file \in Seq(Pieces) /\ Len(file) \in Nat
  BY <1>1, ReadableIsSeq
<1>6. CASE n <= Len(file)
  <2>1. resp' = [resp EXCEPT ![c] = Append(resp[c], file[n])] /\ UNCHANGED served
    BY <1>6 DEF send, Set
  <2>2. UNCHANGED Answers
    BY <1>1, <2>1 DEF Answers
  <2> QED  BY <1>1, <1>3, <1>4, <2>2 DEF LogStep, logVars
<1>7. CASE ~(n <= Len(file))
  <2>1. UNCHANGED resp /\ served' = served \cup {c}
    BY <1>7 DEF send
  <2>2. resp[c] = file
    <3>1. resp[c] \in Seq(Pieces) /\ Len(resp[c]) \in Nat
      BY <1>1
    <3>2. Len(resp[c]) = Len(file) /\ \A i \in 1 .. Len(resp[c]) : resp[c][i] = file[i]
      BY <1>1, <1>5, <1>7, <3>1 DEF SentSoFar
    <3> HIDE DEF file
    <3> QED  BY <1>5, <3>1, <3>2, SeqEqual
  <2>3. Answers[c] = NULL /\ Answers' = [Answers EXCEPT ![c] = file]
    <3> HIDE DEF file
    <3> QED  BY <1>1, <2>1, <2>2 DEF Answers
  <2>4. Packets!Complete(c)
    <3>1. CASE Arrived(c)
      <4>1. PICK i \in 1 .. Len(output) : output[i] \in {<<c, "nl">>, <<c, "cut">>}
        BY <3>1 DEF Arrived
      <4>2. output[i] \in Range(output)
        BY <1>1 DEF Range
      <4>3. {<<c, "nl">>, <<c, "cut">>} \cap Packets!Range(Log) # {}
        BY <1>3, <4>1, <4>2, SameStore
      <4> QED  BY <4>3, Zenon DEF Packets!Complete
    <3>2. CASE char_dev /\ Cardinality(Newlines(output)) = Capacity
      <4>1. char_dev /\ Packets!Cardinality(Packets!Newlines(Log)) = Capacity
        BY <1>3, <3>2, SameStore
      <4> QED  BY <4>1, Zenon DEF Packets!Complete
    <3> QED  BY <1>1, <3>1, <3>2 DEF HasPacket
  <2>5. Answers' = [Answers EXCEPT ![c] = Packets!Readable(char_dev, Log)]
    BY <1>3, <2>3, SameStore
  <2>6. Packets!Answer(c)
    BY <1>1, <1>3, <1>4, <2>3, <2>4, <2>5 DEF Packets!Answer
  <2> QED  BY <2>6 DEF LogStep, Packets!Next
<1> QED  BY <1>6, <1>7

(* The other steps of a worker: recv_check, a reset connection and a       *)
(* failed write end a packet, the rest does not show.                      *)
LEMMA StepWorker ==
  ASSUME LockInv, LockInv', FreedIsOver, StopInv, ListInv, OutputInv, OutputInv', OtherTypes, LogInv,
         PacketOpen, NEW c \in Clients, WorkerStep(c)
  PROVE  LogStep
<1>0. char_dev \in BOOLEAN
  BY ServerAssumption DEF OtherTypes
<1>1. CASE recv_lock(c) \/ recv(c) \/ send(c)
  BY <1>0, <1>1, StepRecvLock, StepRecv, StepSend
<1>2. CASE ~recv_lock(c) /\ ~recv(c) /\ ~send(c)
  <2>1. UNCHANGED <<output, resp, served>>
    BY <1>2 DEF WorkerStep, Others, fileVars, respVars, workVars, recv_check,
                recv_error, recv_done, recv_return, send_lock, send_check, send_error,
                send_sigpipe, close_client, worker_exit, worker_end
  <2>2. /\ UNCHANGED char_dev /\ \A d \in Clients \ {c} : wpc'[d] = wpc[d]
    BY WorkerMoves
  <2>3. UNCHANGED <<char_dev, unlinked, Answers>>
    BY <2>1, <2>2, WorkerNotDeleted DEF Answers
  <2>4. wpc'[c] \in {"recv_check", "recv"} => wpc[c] \in {"recv_check", "recv"}
    <3> USE DEF AtWorker, Goto, Set, LockInv, LockTypes
    <3>1. CASE recv_check(c) \/ recv_error(c) \/ recv_done(c) \/ recv_return(c) \/ send_lock(c)
      BY <3>1 DEF recv_check, recv_error, recv_done, recv_return, send_lock
    <3>2. CASE send_check(c) \/ send_error(c)
      BY <3>2 DEF send_check, send_error, SendEnd
    <3>3. CASE send_sigpipe(c) \/ close_client(c) \/ worker_exit(c) \/ worker_end(c)
      BY <3>3 DEF send_sigpipe, close_client, worker_exit, worker_end, workVars
    <3> QED  BY <1>2, <3>1, <3>2, <3>3 DEF WorkerStep
  <2>5. CASE wpc[c] \in {"recv_check", "recv"} /\ wpc'[c] \notin {"recv_check", "recv"}
    BY <2>1, <2>2, <2>5, StepPacketEnds
  <2>6. CASE wpc[c] \in {"recv_check", "recv"} <=> wpc'[c] \in {"recv_check", "recv"}
    <3>1. UNCHANGED Log
      BY <2>1, <2>2, <2>6, LogSame
    <3> QED  BY <2>3, <3>1 DEF LogStep, logVars
  <2> QED  BY <2>4, <2>5, <2>6
<1> QED  BY <1>1, <1>2
(* A timestamp goes behind the last packet, while nobody receives.         *)
LEMMA StepAlarm ==
  ASSUME LockInv, LockInv', OutputInv, OutputInv', LogInv, NEW t \in Threads, alarm_handler(t)
  PROVE  LogStep
<1>1. /\ UNCHANGED <<wpc, resp, served, char_dev, main>> /\ lock = NULL /\ t \in alarm
  BY DEF alarm_handler, HandlerMayWrite, workVars, mainVars, storeVars, respVars
<1>2. ~char_dev
  BY <1>1 DEF LogInv, DeviceHolds
<1>3. UNCHANGED <<char_dev, unlinked, Answers>>
  BY DEF alarm_handler, mainVars, storeVars, workVars, respVars, Answers
<1>4. \A c \in Clients : wpc[c] \notin {"recv_check", "recv"}
  BY <1>1, ServerAssumption DEF LockInv, LockMatchesFile, InFile, Threads
<1>5. CASE UNCHANGED output
  <2>1. UNCHANGED Log
    BY <1>1, <1>5, LogSame
  <2> QED  BY <1>3, <2>1 DEF LogStep, logVars
<1>6. ASSUME NEW kind \in {"stamp", "cut"}, output' = Stamped(kind) PROVE LogStep
  <2>1. output' = Append(Log, <<Main, kind>>) /\ Log \in Seq(Pieces)
    BY <1>4, <1>6, LogIs, EmptyFile DEF Stamped, OutputInv, OutputTypes
  <2>2. output' \in Seq(Pieces)
    BY <2>1 DEF Pieces
  <2>3. output' # NoFile
    BY <2>2, ServerAssumption
  <2>4. Log' = output'
    BY <1>1, <1>4, <2>3 DEF Log, Receiving
  <2>5. Packets!Timestamp
    BY <1>2, <1>3, <2>1, <2>4 DEF Packets!Timestamp
  <2> QED  BY <2>5 DEF LogStep, Packets!Next
<1> QED  BY <1>5, <1>6 DEF alarm_handler

(* srv_shutdown deletes the log of a file; no other step of the main       *)
(* thread shows.                                                           *)
LEMMA StepMain ==
  ASSUME LockInv, LockInv', FreedIsOver, StopInv, ListInv', OutputInv, OutputInv', MainStep
  PROVE  LogStep
<1>1. UNCHANGED char_dev
  BY MainMoves
<1>2. CASE shutdown_unlink
  <2>1. /\ UNCHANGED <<wpc, freed, resp, served>> /\ main = "stop"
        /\ \/ ~char_dev /\ output' = NoFile /\ unlinked' = TRUE
           \/ UNCHANGED <<output, unlinked>>
    BY <1>2 DEF shutdown_unlink, AtMain, workVars, flagVars, respVars
  <2>2. UNCHANGED Answers
    BY <2>1 DEF Answers
  <2>3. CASE UNCHANGED <<output, unlinked>>
    <3>1. UNCHANGED Log
      BY <2>1, <2>3, LogSame
    <3> QED  BY <1>1, <2>2, <2>3, <3>1 DEF LogStep, logVars
  <2>4. CASE ~char_dev /\ output' = NoFile /\ unlinked' = TRUE
    <3>1. Log' = << >>
      BY <2>4 DEF Log
    <3>2. ~unlinked
      BY <2>1 DEF StopInv, FileDeleted
    <3>3. Packets!Delete
      BY <1>1, <2>2, <2>4, <3>1, <3>2 DEF Packets!Delete
    <3> QED  BY <3>3 DEF LogStep, Packets!Next
  <2> QED  BY <2>1, <2>3, <2>4
<1>3. CASE ~shutdown_unlink
  <2>1. UNCHANGED <<output, resp, served>>
    BY <1>3 DEF MainStep, Control, start, server_init, srv_bind, srv_listen, run_start,
         run_loop, accept_enter, accept_client, start_worker, insert_worker, check_worker,
         check_join, check_end, Join, shutdown_begin, stop_worker, stop_join,
         run_return, fileVars, workVars, respVars
  <2>2. \A c \in Clients : wpc'[c] = wpc[c] \/ (wpc[c] = "none" /\ wpc'[c] = "recv_lock")
    <3>1. UNCHANGED wpc \/ (wpc' = Set(wpc, subject, "recv_lock") /\ main = "spawn")
      BY <1>3 DEF MainStep, Control, start, server_init, srv_bind, srv_listen, run_start,
         run_loop, accept_enter, accept_client, start_worker, insert_worker, check_worker,
         check_join, check_end, Join, shutdown_begin, stop_worker, stop_join,
         run_return, workVars, AtMain
    <3> QED  BY <3>1 DEF LockInv, LockTypes, SpawnsOnce, Set
  <2>3. UNCHANGED unlinked
    BY <1>3 DEF MainStep, Control, start, server_init, srv_bind, srv_listen, run_start,
         run_loop, accept_enter, accept_client, start_worker, insert_worker, check_worker,
         check_join, check_end, Join, shutdown_begin, stop_worker, stop_join, run_return,
         storeVars
  <2>4. UNCHANGED Log
    BY <2>1, <2>2, LogSame
  <2> QED  BY <1>1, <2>1, <2>3, <2>4 DEF LogStep, logVars, Answers
<1> QED  BY <1>2, <1>3

(* Every step of the process, of a client or of the kernel is a step of    *)
(* the packet log, or does not show in it.                                 *)
LEMMA LogRefines ==
  LockInv /\ LockInv' /\ FreedIsOver /\ StopInv /\ ListInv /\ ListInv' /\ OutputInv /\ OutputInv'
      /\ OtherTypes /\ LogInv /\ PacketOpen /\ [Next]_vars
    => [Packets!Next]_<<char_dev, Log, unlinked, Answers>>
<1> SUFFICES ASSUME LockInv, LockInv', FreedIsOver, StopInv, ListInv, ListInv', OutputInv, OutputInv',
                    OtherTypes, LogInv, PacketOpen, [Next]_vars
             PROVE  LogStep
  BY DEF LogStep, logVars
<1>1. CASE \/ signal_handler \/ signal_default \/ timer_expires \/ UNCHANGED vars
           \/ \E c \in Clients : ClientStep(c)
  <2>1. UNCHANGED <<output, wpc, resp, served, char_dev, unlinked>>
    BY <1>1 DEF signal_handler, signal_default, timer_expires, ClientStep, client_connect,
                client_send, client_read, client_leave, vars, fileVars, workVars, mainVars,
                storeVars, respVars
  <2>2. UNCHANGED Log
    BY <2>1, LogSame
  <2> QED  BY <2>1, <2>2 DEF LogStep, logVars, Answers
<1> QED  BY <1>1, StepMain, StepAlarm, StepWorker DEF Next

(* For every number of clients, every way the packets are cut into         *)
(* segments, every failure and both builds, the server implements          *)
(* PacketLog: packets and timestamps reach the output one after the other  *)
(* and in one piece, and a client that gets a complete response gets what  *)
(* the output returns at one moment, with its own packet in it.            *)
THEOREM ServerImplementsLog == Spec => FileIsPacketLog
<1>1. Init => Packets!Init
  <2> SUFFICES ASSUME Init PROVE Packets!Init
    OBVIOUS
  <2>1. char_dev \in BOOLEAN
    BY ServerAssumption DEF Init
  <2>2. Log = << >>
    BY EmptyFile DEF Init, Log, Receiving
  <2>3. unlinked = FALSE /\ Answers = [c \in Clients |-> NULL]
    BY DEF Init, Answers
  <2> QED  BY <2>1, <2>2, <2>3, Zenon DEF Packets!Init
<1>2. Init => FreedIsOver
  BY DEF Init, FreedIsOver
<1> QED
  BY <1>1, <1>2, LockInit, LockNext, FreedNext, ListInit, ListNext, StopInit, StopNext, OutputInit,
     OutputNext, OtherTypesInit, OtherTypesNext, LogInit, LogNext, OpenInit, OpenNext, LogRefines, PTL
  DEF Spec, FileIsPacketLog, Packets!Spec
=============================================================================
