--------------------------- MODULE AuditLog_proofs ---------------------------
(***************************************************************************)
(* The audit file behaves like an atomic log: proofs for every set of      *)
(* writers, events and bounds, where no write is cut right before its      *)
(* newline.                                                                *)
(***************************************************************************)
EXTENDS AuditLog, SequenceTheorems, TLAPS

\* No write leaves a whole event that lacks only its newline.
NoBareCut == "bare" \notin Cuts

---------------------------------------------------------------------------
(* The verified part of the file *)

\* The lines of a well-typed file.
LEMMA FileIs ==
  ASSUME TypeOK
  PROVE  /\ Len(file) \in Nat /\ DOMAIN file = 1 .. Len(file)
         /\ \A i \in DOMAIN file : file[i] \in Lines
BY DEF TypeOK

\* A file in order verifies when its last line is whole.
LEMMA SoundIs ==
  ASSUME TypeOK, FileInOrder
  PROVE  Sound(file) <=> \A i \in DOMAIN file : file[i].form = "line"
BY DEF Sound, FileInOrder

\* Where the last line is whole every line is; else it is the only half one.
LEMMA LastDecides ==
  ASSUME TypeOK, FileInOrder
  PROVE  \/ \A i \in DOMAIN file : file[i].form = "line"
         \/ /\ Len(file) # 0 /\ file[Len(file)].form = "half"
            /\ \A i \in DOMAIN file : i # Len(file) => file[i].form = "line"
<1>1. Len(file) \in Nat /\ DOMAIN file = 1 .. Len(file)
  BY FileIs
<1>2. \A i \in DOMAIN file : i # Len(file) => file[i].form = "line"
  BY <1>1 DEF FileInOrder
<1> QED
  BY <1>1, <1>2 DEF FileInOrder

\* The first n lines verify if they are whole.
LEMMA PrefixSound ==
  ASSUME TypeOK, FileInOrder, NEW n \in 0 .. Len(file)
  PROVE  Sound(SubSeq(file, 1, n)) <=> \A i \in 1 .. n : file[i].form = "line"
<1>1. Len(file) \in Nat /\ DOMAIN file = 1 .. Len(file)
  BY FileIs
<1>2. /\ DOMAIN SubSeq(file, 1, n) = 1 .. n
      /\ \A i \in 1 .. n : SubSeq(file, 1, n)[i] = file[i]
  BY <1>1 DEF TypeOK
<1>3. \A i \in 1 .. n : file[i].seq = i /\ file[i].form \in {"line", "half"}
  BY <1>1 DEF FileInOrder
<1> QED
  BY <1>2, <1>3, ZenonT(60) DEF Sound

\* All of a file that verifies is verified, and all but the last line of one
\* that does not.
LEMMA VerifiedIs ==
  ASSUME TypeOK, FileInOrder
  PROVE  /\ Sound(file) => Verified = Len(file)
         /\ ~Sound(file) => /\ Len(file) # 0 /\ file[Len(file)].form = "half"
                            /\ Verified = Len(file) - 1
<1> DEFINE P(n) == /\ Sound(SubSeq(file, 1, n))
                   /\ \A m \in n + 1 .. Len(file) : ~Sound(SubSeq(file, 1, m))
<1>1. Len(file) \in Nat /\ DOMAIN file = 1 .. Len(file)
  BY FileIs
<1>2. \A n \in 0 .. Len(file) :
        Sound(SubSeq(file, 1, n)) <=> \A i \in 1 .. n : file[i].form = "line"
  BY PrefixSound
<1>3. \A n, m \in 0 .. Len(file) : P(n) /\ P(m) => n = m
  <2> SUFFICES ASSUME NEW n \in 0 .. Len(file), NEW m \in 0 .. Len(file), P(n), P(m), n < m
               PROVE  FALSE
    BY <1>1
  <2>1. m \in n + 1 .. Len(file)
    BY <1>1
  <2> QED
    BY <2>1
<1>4. Verified = CHOOSE n \in 0 .. Len(file) : P(n)
  BY DEF Verified
<1>5. ASSUME NEW n \in 0 .. Len(file), P(n) PROVE Verified = n
  <2>1. Verified \in 0 .. Len(file) /\ P(Verified)
    BY <1>4, <1>5
  <2> HIDE DEF P
  <2> QED
    BY <1>3, <1>5, <2>1
<1>6. CASE Sound(file)
  <2>1. \A i \in DOMAIN file : file[i].form = "line"
    BY <1>6, SoundIs
  <2>2. P(Len(file))
    BY <1>1, <1>2, <2>1
  <2> QED
    BY <1>1, <1>5, <1>6, <2>2
<1>7. CASE ~Sound(file)
  <2>1. /\ Len(file) # 0 /\ file[Len(file)].form = "half"
        /\ \A i \in DOMAIN file : i # Len(file) => file[i].form = "line"
    BY <1>7, SoundIs, LastDecides
  <2>2. Len(file) - 1 \in 0 .. Len(file) /\ P(Len(file) - 1)
    BY <1>1, <1>2, <2>1
  <2> HIDE DEF P
  <2>3. Verified = Len(file) - 1
    BY <1>5, <2>2
  <2> QED
    BY <1>7, <2>1, <2>3
<1> QED
  BY <1>6, <1>7

---------------------------------------------------------------------------
(* The steps *)

\* A new line at the end.
LEMMA LineAdded ==
  ASSUME TypeOK, FileInOrder, Sound(file), NEW line \in Lines, line.form = "half"
  PROVE  /\ Put(line) = Append(file, line)
         /\ DOMAIN Append(file, line) = DOMAIN file \cup {Len(file) + 1}
         /\ Len(Append(file, line)) = Len(file) + 1
         /\ \A i \in DOMAIN file : Append(file, line)[i] = file[i]
         /\ Append(file, line)[Len(file) + 1] = line
<1>1. Len(file) = 0 \/ file[Len(file)].form = "line"
  <2>1. Len(file) # 0 => Len(file) \in DOMAIN file
    BY FileIs
  <2> QED
    BY <2>1, SoundIs
<1>2. Put(line) = Append(file, line)
  BY <1>1 DEF Put
<1>3. file \in Seq(Lines)
  BY DEF TypeOK
<1> QED
  BY <1>2, <1>3

\* The rest of the line of the writer that holds the lock.
LEMMA LineEnded ==
  ASSUME TypeOK, LogInv, NEW w \in Writers, pc[w] = "rest", NEW form \in {"line", "half"}
  PROVE  /\ Written(w, form) \in Seq(Lines) /\ Len(Written(w, form)) = Len(file)
         /\ DOMAIN Written(w, form) = DOMAIN file
         /\ Len(file) \in DOMAIN file
         /\ \A i \in DOMAIN file : i # Len(file) => Written(w, form)[i] = file[i]
         /\ Written(w, form)[Len(file)] = [payload[w] EXCEPT !.form = form]
         /\ file[Len(file)] = [payload[w] EXCEPT !.form = "half"]
<1>1. /\ Len(file) # 0 /\ file[Len(file)] = [payload[w] EXCEPT !.form = "half"]
  BY DEF LogInv, LockHeld, AppendUnderWay
<1>2. /\ Len(file) \in Nat /\ Len(file) \in DOMAIN file /\ DOMAIN file = 1 .. Len(file)
      /\ payload[w] \in Lines /\ file \in Seq(Lines)
  BY <1>1, FileIs DEF TypeOK
<1>3. Written(w, form) = [file EXCEPT ![Len(file)].form = form]
  BY <1>1 DEF Written
<1>4. [payload[w] EXCEPT !.form = form] \in Lines
  BY <1>2 DEF Lines, Forms
<1>5. [file[Len(file)] EXCEPT !.form = form] = [payload[w] EXCEPT !.form = form]
  BY <1>1, <1>2 DEF Lines
<1>6. Written(w, form) = [file EXCEPT ![Len(file)] = [payload[w] EXCEPT !.form = form]]
  BY <1>3, <1>5
<1> QED
  BY <1>1, <1>2, <1>4, <1>6, ExceptSeq

\* The writer and the others after the writer let the lock go.
LEMMA LeaveIs ==
  ASSUME TypeOK, LockHeld, NEW w \in Writers, pc[w] # "idle", Leave(w)
  PROVE  lock = {w} /\ lock' = {} /\ LockHeld'
<1>1. lock = {w}
  BY DEF LockHeld
<1>2. lock' = {}
  BY <1>1 DEF Leave
<1>3. \A v \in Writers : pc'[v] = "idle"
  BY <1>1 DEF Leave, TypeOK, LockHeld
<1> QED
  BY <1>1, <1>2, <1>3 DEF LockHeld

\* Taking the lock on a chain that verifies.
LEMMA EnterKeeps ==
  ASSUME TypeOK, LogInv, NEW w \in Writers, Enter(w)
  PROVE  TypeOK' /\ LogInv'
<1>1. PICK id \in Ids \cup {0} :
        /\ id # 0 => ~Has(id)
        /\ payload' = [payload EXCEPT ![w] = [id |-> id, seq |-> Len(file) + 1, form |-> "line"]]
  BY DEF Enter
<1>2. /\ pc' = [pc EXCEPT ![w] = "write"] /\ lock' = {w} /\ lock = {} /\ Sound(file)
      /\ UNCHANGED <<file, accepted, cuts>>
  BY DEF Enter
<1>3. [id |-> id, seq |-> Len(file) + 1, form |-> "line"] \in Lines
  BY FileIs DEF Lines, Forms
<1>4. TypeOK'
  BY <1>1, <1>2, <1>3 DEF TypeOK
<1>5. LockHeld'
  BY <1>2 DEF TypeOK, LogInv, LockHeld
<1>6. AppendUnderWay(w)'
  <2>1. payload'[w] = [id |-> id, seq |-> Len(file) + 1, form |-> "line"] /\ pc'[w] = "write"
    BY <1>1, <1>2 DEF TypeOK
  <2>2. \A i \in DOMAIN file : file[i].form = "line"
    BY <1>2, SoundIs DEF LogInv
  <2> QED
    BY <1>1, <1>2, <2>1, <2>2 DEF AppendUnderWay, Has
<1>7. FileInOrder'
  BY <1>2 DEF LogInv, FileInOrder
<1> QED
  BY <1>2, <1>4, <1>5, <1>6, <1>7 DEF LogInv

\* The first bytes of a line under the lock.
LEMMA WriteKeeps ==
  ASSUME TypeOK, LogInv, NEW w \in Writers, Write(w)
  PROVE  TypeOK' /\ LogInv' /\ Sound(file)
         /\ file' = Append(file, [payload[w] EXCEPT !.form = "half"])
<1> DEFINE line == [payload[w] EXCEPT !.form = "half"]
<1>1. /\ pc[w] = "write" /\ file' = Put(line) /\ pc' = [pc EXCEPT ![w] = "rest"]
      /\ UNCHANGED <<lock, payload, accepted, cuts>>
  BY DEF Write
<1>2. lock = {w} /\ AppendUnderWay(w)
  BY <1>1 DEF LogInv, LockHeld
<1>3. /\ line \in Lines /\ line.form = "half" /\ line.id = payload[w].id
      /\ line.seq = payload[w].seq
  BY DEF TypeOK, Lines, Forms
<1>4. Sound(file)
  BY <1>1, <1>2, SoundIs DEF AppendUnderWay, LogInv
<1> HIDE DEF line
<1>5. /\ file' = Append(file, line)
      /\ DOMAIN file' = DOMAIN file \cup {Len(file) + 1}
      /\ Len(file') = Len(file) + 1
      /\ \A i \in DOMAIN file : file'[i] = file[i]
      /\ file'[Len(file) + 1] = line
  BY <1>1, <1>3, <1>4, LineAdded DEF LogInv
<1>6. Len(file) \in Nat /\ DOMAIN file = 1 .. Len(file)
  BY FileIs
<1>7. /\ \A i \in DOMAIN file : file[i].form = "line"
      /\ payload[w].seq = Len(file) + 1
      /\ payload[w].id # 0 => \A i \in DOMAIN file : file[i].id # payload[w].id
  BY <1>1, <1>2 DEF AppendUnderWay, Has
<1>8. TypeOK'
  <2>1. file' \in Seq(Lines)
    BY <1>3, <1>5 DEF TypeOK
  <2> QED
    BY <1>1, <2>1 DEF TypeOK
<1>9. FileInOrder'
  <2>1. \A i \in DOMAIN file' : file'[i].seq = i /\ file'[i].form \in {"line", "half"}
    BY <1>3, <1>5, <1>7 DEF LogInv, FileInOrder
  <2>2. \A i \in DOMAIN file' : i < Len(file') => file'[i].form = "line"
    BY <1>5, <1>6, <1>7
  <2>3. \A i, j \in DOMAIN file' : file'[i].id # 0 /\ file'[i].id = file'[j].id => i = j
    BY <1>3, <1>5, <1>7 DEF LogInv, FileInOrder
  <2> QED
    BY <2>1, <2>2, <2>3 DEF FileInOrder
<1>10. LockHeld'
  BY <1>1, <1>2 DEF TypeOK, LogInv, LockHeld
<1>11. AppendUnderWay(w)'
  <2>1. pc'[w] = "rest" /\ payload'[w] = payload[w]
    BY <1>1 DEF TypeOK
  <2>2. file'[Len(file')] = [payload'[w] EXCEPT !.form = "half"] /\ Len(file') # 0
    BY <1>5, <1>6, <2>1 DEF line
  <2> QED
    BY <1>2, <2>1, <2>2 DEF AppendUnderWay
<1>12. \A id \in accepted' : \E i \in DOMAIN file' : file'[i].id = id /\ file'[i].form = "line"
  BY <1>1, <1>5 DEF LogInv
<1> QED
  BY <1>1, <1>2, <1>4, <1>5, <1>8, <1>9, <1>10, <1>11, <1>12 DEF LogInv, line

\* The line is ended, or what there is of it left behind, and the lock let go.
LEMMA EndKeeps ==
  ASSUME TypeOK, LogInv, NEW w \in Writers, pc[w] = "rest", NEW form \in {"line", "half"},
         file' = Written(w, form), Leave(w), cuts' \in Nat,
         \/ accepted' = accepted
         \/ form = "line" /\ accepted' = accepted \cup ({payload[w].id} \ {0})
  PROVE  TypeOK' /\ LogInv'
<1> DEFINE n == Len(file)
           line == [payload[w] EXCEPT !.form = form]
<1>1. /\ file' \in Seq(Lines) /\ Len(file') = n /\ DOMAIN file' = DOMAIN file
      /\ n \in DOMAIN file
      /\ \A i \in DOMAIN file : i # n => file'[i] = file[i]
      /\ file'[n] = line
      /\ file[n] = [payload[w] EXCEPT !.form = "half"]
  <2>1. /\ Written(w, form) \in Seq(Lines) /\ Len(Written(w, form)) = Len(file)
        /\ DOMAIN Written(w, form) = DOMAIN file
        /\ Len(file) \in DOMAIN file
        /\ \A i \in DOMAIN file : i # Len(file) => Written(w, form)[i] = file[i]
        /\ Written(w, form)[Len(file)] = [payload[w] EXCEPT !.form = form]
        /\ file[Len(file)] = [payload[w] EXCEPT !.form = "half"]
    BY LineEnded
  <2> QED
    BY <2>1
<1>2. n \in Nat /\ DOMAIN file = 1 .. n
  BY FileIs
<1>3. /\ line.id = file[n].id /\ line.seq = file[n].seq /\ line.form = form
      /\ line.id = payload[w].id /\ payload[w] \in Lines
  BY <1>1 DEF TypeOK, Lines
<1> HIDE DEF line
<1>4. TypeOK'
  <2>1. accepted' \subseteq Ids
    BY <1>3 DEF TypeOK, Lines
  <2>2. pc' \in [Writers -> {"idle", "write", "rest"}] /\ lock' \subseteq Writers
    BY DEF TypeOK, Leave
  <2>3. payload' \in [Writers -> Lines]
    <3>1. NoLine \in Lines
      BY DEF NoLine, Lines, Forms
    <3> QED
      BY <3>1 DEF TypeOK, Leave
  <2> QED
    BY <1>1, <2>1, <2>2, <2>3 DEF TypeOK
<1>5. lock' = {} /\ LockHeld'
  BY LeaveIs DEF LogInv
<1>6. FileInOrder'
  <2>1. \A i \in DOMAIN file : file'[i].id = file[i].id /\ file'[i].seq = file[i].seq
    BY <1>1, <1>3
  <2>2. \A i \in DOMAIN file' : i < Len(file') => file'[i].form = "line"
    BY <1>1, <1>2 DEF LogInv, FileInOrder
  <2>3. \A i \in DOMAIN file' : file'[i].form \in {"line", "half"}
    BY <1>1, <1>3 DEF LogInv, FileInOrder
  <2> QED
    BY <1>1, <2>1, <2>2, <2>3 DEF LogInv, FileInOrder
<1>7. \A id \in accepted' : \E i \in DOMAIN file' : file'[i].id = id /\ file'[i].form = "line"
  <2>1. ASSUME NEW id \in accepted
        PROVE  \E i \in DOMAIN file' : file'[i].id = id /\ file'[i].form = "line"
    <3>1. PICK i \in DOMAIN file : file[i].id = id /\ file[i].form = "line"
      BY DEF LogInv
    <3>2. i # n
      BY <1>1, <3>1 DEF TypeOK, Lines
    <3> QED
      BY <1>1, <3>1, <3>2
  <2> QED
    BY <1>1, <1>3, <2>1
<1> QED
  BY <1>4, <1>5, <1>6, <1>7 DEF LogInv

\* Where a writer leaves without having written.
LEMMA DropKeeps ==
  ASSUME TypeOK, LogInv, NEW w \in Writers, pc[w] # "idle", Leave(w),
         UNCHANGED <<file, accepted>>, cuts' \in Nat
  PROVE  TypeOK' /\ LogInv'
<1>1. TypeOK'
  <2>1. NoLine \in Lines
    BY DEF NoLine, Lines, Forms
  <2> QED
    BY <2>1 DEF TypeOK, Leave
<1>2. lock' = {} /\ LockHeld'
  BY LeaveIs DEF LogInv
<1> QED
  BY <1>1, <1>2 DEF LogInv, FileInOrder

\* What a cut leaves is the beginning of the line or all of it.
LEMMA CutIs ==
  ASSUME NoBareCut, TypeOK, NEW w \in Writers, CutShort(w)
  PROVE  /\ Leave(w) /\ UNCHANGED accepted /\ cuts' \in Nat
         /\ \/ pc[w] = "write" /\ UNCHANGED file
            \/ pc[w] = "rest" /\ \E c \in {"line", "half"} : file' = Written(w, c)
<1>1. Cuts \subseteq {"line", "half"}
  BY AuditAssumption DEF NoBareCut
<1> QED
  BY <1>1 DEF CutShort, TypeOK

\* The event was found: its line is whole, since the chain verifies.
LEMMA FoundKeeps ==
  ASSUME TypeOK, LogInv, NEW w \in Writers, Found(w)
  PROVE  TypeOK' /\ LogInv'
<1>1. PICK id \in Ids : Has(id) /\ accepted' = accepted \cup {id}
  BY DEF Found
<1>2. Sound(file) /\ UNCHANGED <<file, lock, pc, payload, cuts>>
  BY DEF Found
<1>3. \E i \in DOMAIN file : file[i].id = id /\ file[i].form = "line"
  BY <1>1, <1>2, SoundIs DEF Has, LogInv
<1>4. TypeOK'
  BY <1>1, <1>2 DEF TypeOK
<1>5. \A v \in lock : AppendUnderWay(v)'
  BY <1>2 DEF LogInv, AppendUnderWay, Has
<1> QED
  BY <1>1, <1>2, <1>3, <1>4, <1>5 DEF LogInv, LockHeld, FileInOrder

\* Each step of a writer keeps the invariant; one case per action.
LEMMA LogNext ==
  ASSUME NoBareCut, TypeOK, LogInv, [Next]_vars
  PROVE  TypeOK' /\ LogInv'
<1>1. ASSUME NEW w \in Writers, Enter(w) PROVE TypeOK' /\ LogInv'
  BY <1>1, EnterKeeps
<1>2. ASSUME NEW w \in Writers, Found(w) PROVE TypeOK' /\ LogInv'
  BY <1>2, FoundKeeps
<1>3. ASSUME NEW w \in Writers, Write(w) PROVE TypeOK' /\ LogInv'
  BY <1>3, WriteKeeps
<1>4. ASSUME NEW w \in Writers, Finish(w) PROVE TypeOK' /\ LogInv'
  BY <1>4, EndKeeps DEF Finish, TypeOK
<1>5. ASSUME NEW w \in Writers, CutShort(w) PROVE TypeOK' /\ LogInv'
  BY <1>5, CutIs, DropKeeps, EndKeeps
<1>6. CASE UNCHANGED vars
  BY <1>6 DEF vars, TypeOK, LogInv, LockHeld, FileInOrder, AppendUnderWay, Has
<1> QED
  BY <1>1, <1>2, <1>3, <1>4, <1>5, <1>6 DEF Next

\* An empty file and no writer.
LEMMA LogInit == Init => TypeOK /\ LogInv
<1>1. NoLine \in Lines
  BY DEF NoLine, Lines, Forms
<1> QED
  BY <1>1 DEF Init, TypeOK, LogInv, LockHeld, FileInOrder

---------------------------------------------------------------------------
(* Refinement *)

\* What a reader sees of the log, as AtomicLog has it.
Seen == [i \in 1 .. Verified |-> file[i].id]
Damaged == lock = {} /\ ~Sound(file)

\* The whole lines and only they are seen.
SeenPart ==
  /\ Sound(file) => Verified = Len(file)
  /\ ~Sound(file) => Verified = Len(file) - 1

LEMMA SeenNow == TypeOK /\ FileInOrder => SeenPart
BY VerifiedIs DEF SeenPart

\* The same after a step.
LEMMA SeenNext == TypeOK' /\ FileInOrder' => SeenPart'
BY SeenNow, PTL

\* A line that becomes whole is one more event for the reader, which is new.
LEMMA LineSeen ==
  ASSUME TypeOK, LogInv, TypeOK', LogInv', NEW w \in Writers, pc[w] = "rest",
         file' = Written(w, "line"), Leave(w)
  PROVE  \E id \in Ids \cup {0} : Log!Add(id)
<1> DEFINE n == Len(file)
           id == payload[w].id
<1>1. /\ Len(file') = n /\ DOMAIN file' = DOMAIN file /\ n \in DOMAIN file
      /\ \A i \in DOMAIN file : i # n => file'[i] = file[i]
      /\ file'[n] = [payload[w] EXCEPT !.form = "line"]
      /\ file[n] = [payload[w] EXCEPT !.form = "half"]
  <2>1. /\ Len(Written(w, "line")) = Len(file)
        /\ DOMAIN Written(w, "line") = DOMAIN file
        /\ Len(file) \in DOMAIN file
        /\ \A i \in DOMAIN file : i # Len(file) => Written(w, "line")[i] = file[i]
        /\ Written(w, "line")[Len(file)] = [payload[w] EXCEPT !.form = "line"]
        /\ file[Len(file)] = [payload[w] EXCEPT !.form = "half"]
    BY LineEnded
  <2> QED
    BY <2>1
<1>2. /\ n \in Nat /\ DOMAIN file = 1 .. n /\ payload[w] \in Lines
  BY FileIs DEF TypeOK
<1>3. id \in Ids \cup {0} /\ file[n].id = id /\ file'[n].id = id /\ file'[n].form = "line"
      /\ file[n].form = "half"
  BY <1>1, <1>2 DEF Lines
<1>4. ~Sound(file) /\ Verified = n - 1
  BY <1>1, <1>3, SeenNow DEF SeenPart, Sound, LogInv
<1>5. Sound(file)' /\ Verified' = n
  <2>1. \A i \in DOMAIN file' : file'[i].form = "line"
    BY <1>1, <1>2, <1>3 DEF LogInv, FileInOrder
  <2>2. Sound(file)'
    BY <2>1 DEF Sound, LogInv, FileInOrder
  <2> QED
    BY <1>1, <2>2, SeenNext DEF SeenPart, LogInv
<1> HIDE DEF n, id
<1>6. Seen' = [i \in 1 .. n |-> IF i = n THEN id ELSE file[i].id]
  BY <1>1, <1>2, <1>3, <1>5 DEF Seen
<1>7. Seen = [i \in 1 .. n - 1 |-> file[i].id]
  BY <1>4 DEF Seen
<1>8. \A i \in 1 .. n - 1 : file[i].id \in Ids \cup {0}
  <2>1. \A i \in DOMAIN file : file[i] \in Lines
    BY FileIs
  <2> QED
    BY <1>2, <2>1 DEF Lines
<1>9. Seen' = Append(Seen, id)
  <2>1. n \in Nat /\ n # 0 /\ n - 1 \in Nat /\ (n - 1) + 1 = n
    BY <1>1, <1>2
  <2>2. Seen \in Seq(Ids \cup {0}) /\ Len(Seen) = n - 1
    <3>1. Seen \in [1 .. n - 1 -> Ids \cup {0}]
      BY <1>7, <1>8
    <3> QED
      BY <2>1, <3>1
  <2>3. Seen' \in Seq(Ids \cup {0}) /\ Len(Seen') = n
    <3>1. Seen' \in [1 .. n -> Ids \cup {0}]
      BY <1>3, <1>6, <1>8, <2>1
    <3> QED
      BY <2>1, <3>1
  <2>4. /\ Append(Seen, id) \in Seq(Ids \cup {0}) /\ Len(Append(Seen, id)) = n
        /\ \A i \in 1 .. n - 1 : Append(Seen, id)[i] = Seen[i]
        /\ Append(Seen, id)[n] = id
    BY <1>3, <2>1, <2>2, AppendProperties
  <2>5. \A i \in 1 .. n : Seen'[i] = Append(Seen, id)[i]
    BY <1>6, <1>7, <2>1, <2>4
  <2> QED
    BY <2>3, <2>4, <2>5, SeqEqual
<1>10. \A i \in DOMAIN Seen : Seen[i] # id \/ id = 0
  BY <1>1, <1>2, <1>3, <1>7 DEF LogInv, FileInOrder
<1>11. ~Damaged /\ Damaged' = Damaged
  <2>1. lock = {w}
    BY DEF LogInv, LockHeld
  <2> QED
    BY <1>5, <2>1 DEF Damaged
<1> QED
  BY <1>3, <1>9, <1>10, <1>11 DEF Log!Add, Seen, Damaged, id

\* Steps at which a reader sees nothing new.
LEMMA NothingSeen ==
  ASSUME TypeOK, LogInv, UNCHANGED file, Sound(file) \/ UNCHANGED lock
  PROVE  UNCHANGED <<Seen, Damaged>>
<1>1. Verified' = Verified /\ (Sound(file))' = Sound(file)
  BY DEF Verified, Sound
<1> QED
  BY <1>1 DEF Seen, Damaged

\* Each step of a writer is a step of the atomic log, or none.
LEMMA LogStep ==
  ASSUME NoBareCut, TypeOK, LogInv, TypeOK', LogInv', [Next]_vars
  PROVE  Log!Next \/ UNCHANGED <<Seen, Damaged>>
<1>1. CASE \E w \in Writers : Enter(w) \/ Found(w)
  BY <1>1, NothingSeen DEF Enter, Found
<1>2. ASSUME NEW w \in Writers, Write(w) PROVE UNCHANGED <<Seen, Damaged>>
  <2>1. /\ Sound(file) /\ file' = Append(file, [payload[w] EXCEPT !.form = "half"])
        /\ pc[w] = "write" /\ lock' = lock
    BY <1>2, WriteKeeps DEF Write
  <2>2. lock # {}
    BY <2>1 DEF LogInv, LockHeld
  <2> DEFINE line == [payload[w] EXCEPT !.form = "half"]
  <2>3. line \in Lines /\ line.form = "half"
    BY DEF TypeOK, Lines, Forms
  <2> HIDE DEF line
  <2>4. /\ Len(file') = Len(file) + 1 /\ DOMAIN file' = DOMAIN file \cup {Len(file) + 1}
        /\ \A i \in DOMAIN file : file'[i] = file[i]
        /\ file'[Len(file) + 1] = line
    BY <2>1, <2>3, LineAdded DEF LogInv, line
  <2>5. Len(file) \in Nat /\ DOMAIN file = 1 .. Len(file)
    BY FileIs
  <2>6. ~(Sound(file))'
    BY <2>3, <2>4 DEF Sound
  <2>7. Verified = Len(file) /\ Verified' = Len(file') - 1
    BY <2>1, <2>6, SeenNow, SeenNext DEF SeenPart, LogInv
  <2>8. Verified' = Verified
    BY <2>4, <2>5, <2>7
  <2> QED
    BY <2>1, <2>2, <2>4, <2>5, <2>7, <2>8 DEF Seen, Damaged
<1>3. ASSUME NEW w \in Writers, Finish(w) PROVE Log!Next
  BY <1>3, LineSeen DEF Finish, Log!Next
<1>4. ASSUME NEW w \in Writers, CutShort(w) PROVE Log!Next \/ UNCHANGED <<Seen, Damaged>>
  <2>1. /\ Leave(w) /\ pc[w] # "idle"
        /\ \/ pc[w] = "write" /\ UNCHANGED file
           \/ pc[w] = "rest" /\ file' = Written(w, "line")
           \/ pc[w] = "rest" /\ file' = Written(w, "half")
    BY <1>4, CutIs DEF CutShort
  <2>2. CASE pc[w] = "write" /\ UNCHANGED file
    <3>1. Sound(file)
      BY <2>2, SoundIs, ZenonT(60) DEF LogInv, LockHeld, AppendUnderWay
    <3> QED
      BY <2>2, <3>1, NothingSeen
  <2>3. CASE pc[w] = "rest" /\ file' = Written(w, "line")
    BY <2>1, <2>3, LineSeen DEF Log!Next
  <2>4. CASE pc[w] = "rest" /\ file' = Written(w, "half")
    <3>1. /\ Len(file) # 0 /\ file[Len(file)] = [payload[w] EXCEPT !.form = "half"]
      BY <2>4 DEF LogInv, LockHeld, AppendUnderWay
    <3>2. file' = file
      <4>1. Len(file) \in DOMAIN file /\ file \in Seq(Lines) /\ payload[w] \in Lines
            /\ file[Len(file)] \in Lines
        BY <3>1, FileIs DEF TypeOK
      <4>2. [file[Len(file)] EXCEPT !.form = "half"] = file[Len(file)]
        BY <3>1, <4>1 DEF Lines
      <4>3. file' = [file EXCEPT ![Len(file)] = file[Len(file)]]
        BY <2>4, <3>1, <4>2 DEF Written
      <4> QED
        BY <4>1, <4>3
    <3>3. lock = {w} /\ lock' = {}
      BY <2>1, LeaveIs DEF LogInv
    <3>4. ~Sound(file)
      <4>1. file[Len(file)].form = "half" /\ Len(file) \in DOMAIN file
        BY <3>1, FileIs DEF TypeOK, Lines
      <4> QED
        BY <4>1 DEF Sound
    <3>5. Verified' = Verified /\ ~(Sound(file))'
      BY <3>2, <3>4 DEF Verified, Sound
    <3>6. Seen' = Seen /\ Damaged' = TRUE
      BY <3>2, <3>3, <3>5 DEF Seen, Damaged
    <3> QED
      BY <3>6 DEF Log!Next, Log!Break, Seen, Damaged
  <2> QED
    BY <2>1, <2>2, <2>3, <2>4
<1>5. CASE UNCHANGED vars
  BY <1>5, NothingSeen DEF vars
<1> QED
  BY <1>1, <1>2, <1>3, <1>4, <1>5 DEF Next

---------------------------------------------------------------------------
(* Theorems *)

\* The inductive invariant of the audit file: one lock holder, whole numbered
\* lines but for the last, accepted events on whole lines (AuditLogger.append).
THEOREM LogIsOrdered ==
  ASSUME NoBareCut
  PROVE  Spec => [](TypeOK /\ LogInv)
<1>1. (TypeOK /\ LogInv) /\ [Next]_vars => (TypeOK /\ LogInv)'
  BY LogNext
<1> QED
  BY <1>1, LogInit, PTL DEF Spec

\* An event whose append returned is found by every later reader, also of a log
\* that was damaged afterwards.
THEOREM AcceptedIsKept ==
  ASSUME NoBareCut
  PROVE  Spec => []AcceptedIsReadable
<1>1. TypeOK /\ LogInv => AcceptedIsReadable
  <2> SUFFICES ASSUME TypeOK, LogInv, NEW id \in accepted
               PROVE  \E i \in 1 .. Verified : file[i].id = id
    BY DEF AcceptedIsReadable
  <2>1. PICK i \in DOMAIN file : file[i].id = id /\ file[i].form = "line"
    BY DEF LogInv
  <2>2. /\ Sound(file) => Verified = Len(file)
        /\ ~Sound(file) => /\ file[Len(file)].form = "half"
                           /\ Verified = Len(file) - 1
    BY VerifiedIs DEF LogInv
  <2>3. i \in 1 .. Verified
    BY <2>1, <2>2, FileIs
  <2> QED
    BY <2>1, <2>3
<1> QED
  BY <1>1, LogIsOrdered, PTL

\* The file with its lock, its partial writes and its kills implements the
\* atomic log that PipelineService takes for granted.
THEOREM LogIsAtomic ==
  ASSUME NoBareCut
  PROVE  Spec => ImplementsLog
<1> DEFINE I == TypeOK /\ LogInv
<1>1. Init => Log!Init
  <2> SUFFICES ASSUME Init PROVE Seen = <<>> /\ Damaged = FALSE
    BY DEF Log!Init, Seen, Damaged
  <2>1. file = <<>> /\ TypeOK /\ FileInOrder
    BY LogInit DEF Init, LogInv
  <2>2. Sound(file) /\ Verified = 0
    BY <2>1, VerifiedIs DEF Sound
  <2> QED
    BY <2>1, <2>2 DEF Seen, Damaged
<1>2. I /\ I' /\ [Next]_vars => [Log!Next]_<<Seen, Damaged>>
  BY LogStep
<1>3. Spec => []I
  BY LogIsOrdered
<1> QED
  BY <1>1, <1>2, <1>3, PTL DEF Spec, ImplementsLog, Log!Spec, Seen, Damaged
=============================================================================
