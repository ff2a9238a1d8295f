------------------------------ MODULE AuditLog ------------------------------
(***************************************************************************)
(* The hash-chained JSONL file of mcp/audit.py, byte boundaries included.  *)
(* Writers of several processes hold an exclusive flock from the check of  *)
(* the chain to the end of the write; readers take no lock.  A write may   *)
(* be cut short by a kill or by a full disk.                               *)
(***************************************************************************)
EXTENDS Naturals, Sequences

CONSTANTS
  Writers,    \* handlers and processes that append, strict or best-effort
  Ids,        \* stable event ids; 0 stands for an event without one
  Cuts,       \* what a write that is cut short can leave of its line
  MaxLines,   \* bound: lines of the file
  MaxCuts     \* bound: writes that are cut short

\* The text between two newlines: a whole event with its newline, a whole
\* event that lacks the newline, part of an event, or several texts run
\* together and ended by a newline.
Forms == {"line", "bare", "half", "junk"}

ASSUME AuditAssumption ==
  /\ Ids \subseteq Nat \ {0}
  /\ Cuts \subseteq {"line", "bare", "half"}
  /\ MaxLines \in Nat /\ MaxCuts \in Nat

VARIABLES
  file,       \* the lines of events.jsonl
  lock,       \* who holds .events.lock: a set of one writer or none
  pc,         \* "idle", "write", "rest"
  payload,    \* the line each writer is about to write
  accepted,   \* the event ids whose append returned without an error
  cuts

vars == <<file, lock, pc, payload, accepted, cuts>>

NoLine == [id |-> 0, seq |-> 0, form |-> "half"]

Init ==
  /\ file = <<>>
  /\ lock = {}
  /\ pc = [w \in Writers |-> "idle"]
  /\ payload = [w \in Writers |-> NoLine]
  /\ accepted = {}
  /\ cuts = 0

---------------------------------------------------------------------------
\* _verify_chain_path: every line parses and continues the sequence.  The
\* hashes add nothing where nobody edits the file.
Sound(lines) ==
  \A i \in DOMAIN lines : lines[i].form \in {"line", "bare"} /\ lines[i].seq = i

\* The longest part of the file, from its start, that verifies.
Verified == CHOOSE n \in 0 .. Len(file) :
              /\ Sound(SubSeq(file, 1, n))
              /\ \A m \in n + 1 .. Len(file) : ~Sound(SubSeq(file, 1, m))

Has(id) == \E i \in DOMAIN file : file[i].id = id

\* Text at the end of the file, as one writer adds it: it continues a line
\* that has no newline yet.
Put(line) ==
  LET n == Len(file)
  IN  IF n = 0 \/ file[n].form \in {"line", "junk"} THEN Append(file, line)
      ELSE [file EXCEPT ![n] = [@ EXCEPT !.id = 0,
                                         !.form = IF line.form = "line" THEN "junk" ELSE "half"]]

Leave(w) ==
  /\ pc' = [pc EXCEPT ![w] = "idle"]
  /\ payload' = [payload EXCEPT ![w] = NoLine]
  /\ lock' = lock \ {w}

\* Mutated Enter: without the lock (fcntl is None).
EnterUnlocked(w) ==
  /\ pc[w] = "idle"
  /\ Sound(file)
  /\ Len(file) < MaxLines
  /\ \E id \in Ids \cup {0} :
       /\ id # 0 => ~Has(id)
       /\ payload' = [payload EXCEPT ![w] = [id |-> id, seq |-> Len(file) + 1, form |-> "line"]]
  /\ lock' = {w}
  /\ pc' = [pc EXCEPT ![w] = "write"]
  /\ UNCHANGED <<file, accepted, cuts>>

\* Mutated Enter: the chain is not verified before it is continued.
EnterUnverified(w) ==
  /\ pc[w] = "idle"
  /\ lock = {}
  /\ Len(file) < MaxLines
  /\ \E id \in Ids \cup {0} :
       /\ id # 0 => ~Has(id)
       /\ payload' = [payload EXCEPT ![w] = [id |-> id, seq |-> Len(file) + 1, form |-> "line"]]
  /\ lock' = {w}
  /\ pc' = [pc EXCEPT ![w] = "write"]
  /\ UNCHANGED <<file, accepted, cuts>>

\* AuditLogger.append up to the write: the lock, the chain, the sequence
\* number.  A chain that does not verify ends the call with an error.
Enter(w) ==
  /\ pc[w] = "idle"
  /\ lock = {}
  /\ Sound(file)
  /\ Len(file) < MaxLines
  /\ \E id \in Ids \cup {0} :
       /\ id # 0 => ~Has(id)
       /\ payload' = [payload EXCEPT ![w] = [id |-> id, seq |-> Len(file) + 1, form |-> "line"]]
  /\ lock' = {w}
  /\ pc' = [pc EXCEPT ![w] = "write"]
  /\ UNCHANGED <<file, accepted, cuts>>

\* The event id is in the log: the append returns the line that is there.
Found(w) ==
  /\ pc[w] = "idle"
  /\ lock = {}
  /\ Sound(file)
  /\ \E id \in Ids : Has(id) /\ accepted' = accepted \cup {id}
  /\ UNCHANGED <<file, lock, pc, payload, cuts>>

\* The first bytes of the line reach the file, where a reader sees them.
Write(w) ==
  /\ pc[w] = "write"
  /\ file' = Put([payload[w] EXCEPT !.form = "half"])
  /\ pc' = [pc EXCEPT ![w] = "rest"]
  /\ UNCHANGED <<lock, payload, accepted, cuts>>

\* The text that has now left w's buffer, its first bytes replaced by "line".
Written(w, form) ==
  LET n == Len(file)
  IN  IF file[n] = [payload[w] EXCEPT !.form = "half"]
      THEN [file EXCEPT ![n].form = form]
      ELSE [file EXCEPT ![n].form = IF form = "line" THEN "junk" ELSE "half"]

\* flush, fsync and the return of the payload.
Finish(w) ==
  /\ pc[w] = "rest"
  /\ file' = Written(w, "line")
  /\ accepted' = accepted \cup ({payload[w].id} \ {0})
  /\ Leave(w)
  /\ UNCHANGED cuts

\* The write is cut short: the writer is killed, or an OSError ends the
\* append, as an AuditWriteError (strict) or unnoticed (best-effort).  The
\* lock is released either way.
CutShort(w) ==
  /\ pc[w] \in {"write", "rest"}
  /\ cuts < MaxCuts
  /\ cuts' = cuts + 1
  /\ IF pc[w] = "write" THEN UNCHANGED file
     ELSE \E c \in Cuts : file' = Written(w, c)
  /\ Leave(w)
  /\ UNCHANGED accepted

Next == \E w \in Writers : Enter(w) \/ Found(w) \/ Write(w) \/ Finish(w) \/ CutShort(w)

Spec == Init /\ [][Next]_vars

---------------------------------------------------------------------------
(* Types, and what every writer may rely on *)

Lines == [id : Ids \cup {0}, seq : Nat, form : Forms]

\* Every variable stays in its domain.
TypeOK ==
  /\ file \in Seq(Lines)
  /\ lock \subseteq Writers
  /\ pc \in [Writers -> {"idle", "write", "rest"}]
  /\ payload \in [Writers -> Lines]
  /\ accepted \subseteq Ids
  /\ cuts \in Nat

\* A writer is in the middle of an append if and only if it holds the lock.
LockHeld ==
  /\ \A w \in Writers : pc[w] # "idle" <=> w \in lock
  /\ \A v, w \in lock : v = w

\* The lines are numbered, every line but the last is whole, and no event is
\* there twice.
FileInOrder ==
  /\ \A i \in DOMAIN file : file[i].seq = i /\ file[i].form \in {"line", "half"}
  /\ \A i \in DOMAIN file : i < Len(file) => file[i].form = "line"
  /\ \A i, j \in DOMAIN file : file[i].id # 0 /\ file[i].id = file[j].id => i = j

\* What the writer in the middle of an append found under the lock.
AppendUnderWay(w) ==
  /\ payload[w].form = "line"
  /\ pc[w] = "write" =>
       /\ \A i \in DOMAIN file : file[i].form = "line"
       /\ payload[w].seq = Len(file) + 1
       /\ payload[w].id # 0 => ~Has(payload[w].id)
  /\ pc[w] = "rest" =>
       Len(file) # 0 /\ file[Len(file)] = [payload[w] EXCEPT !.form = "half"]

\* What makes an append atomic, as one inductive invariant (audit.py, the
\* chain verified and the line written under one lock), where no write is cut
\* right before its newline.
LogInv ==
  /\ LockHeld
  /\ FileInOrder
  /\ \A w \in lock : AppendUnderWay(w)
  /\ \A id \in accepted : \E i \in DOMAIN file : file[i].id = id /\ file[i].form = "line"

---------------------------------------------------------------------------
\* A strict append that returned is an event every later reader of a log
\* that verifies finds, and finds in its verified part even of a damaged log
\* (audit.py: "Production callers use strict=True so a missing or failed
\* audit sink stops approval").
AcceptedIsReadable ==
  \A id \in accepted : \E i \in 1 .. Verified : file[i].id = id

\* Nobody but a cut-short write damages the chain, whoever appends at the
\* same time, and a damaged chain stays as it is.
Log == INSTANCE AtomicLog
         WITH trail  <- [i \in 1 .. Verified |-> file[i].id],
              broken <- lock = {} /\ ~Sound(file)
ImplementsLog == Log!Spec
=============================================================================
