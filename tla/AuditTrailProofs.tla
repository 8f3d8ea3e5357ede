-------------------------- MODULE AuditTrailProofs --------------------------
(***************************************************************************)
(* Safety of the audit log for any number of requests, accesses and        *)
(* failures.                                                               *)
(***************************************************************************)
EXTENDS AuditTrail, TLAPS

(***************************************************************************)
(* A server that refused to start has no request, and a request in flight  *)
(* has an identifier that was given out.                                   *)
(***************************************************************************)
RequestInv ==
    \A r \in Requests : request[r].pc # "idle" =>
        mode # "refused" /\ request[r].id \in 1..issued

IInv == TypeOK /\ RequestInv /\ ServedIsRecorded /\ ChainContinues /\ TornRecordIsLast

-----------------------------------------------------------------------------
(* The file *)

LEMMA RecordType ==
    ASSUME TypeOK, NEW id \in 0..MaxAccess, NEW text \in {"line", "unended", "partial"}
    PROVE  Record(id, text) \in Piece
BY BoundsAssumption DEF TypeOK, Record, Piece

LEMMA TipType ==
    ASSUME NEW f \in Seq(Piece)
    PROVE  Tip(f) \in 0..MaxAccess
<1>1. CASE Len(f) = 0
  BY <1>1, BoundsAssumption DEF Tip, Genesis
<1>2. CASE Len(f) # 0
  <2>1. f[Len(f)] \in Piece
    BY <1>2
  <2> QED
    BY <1>2, <2>1 DEF Tip, Piece
<1> QED
  BY <1>1, <1>2

(***************************************************************************)
(* A record that is synced stays synced when the file grows at its end.    *)
(***************************************************************************)
LEMMA RecordsStay ==
    ASSUME TypeOK, NEW p \in Piece, file' = Append(file, p) \/ file' = file,
           synced' >= synced, synced' \in Nat, NEW id, Recorded(id)
    PROVE  Recorded(id)'
<1>1. PICK i \in 1..synced : file[i].hash = id /\ file[i].text = "line"
  BY DEF Recorded
<1>2. i \in 1..Len(file) /\ i \in 1..synced'
  BY DEF TypeOK
<1>3. file'[i] = file[i]
  BY <1>2 DEF TypeOK
<1> QED
  BY <1>1, <1>2, <1>3 DEF Recorded

(***************************************************************************)
(* A chain that memory stands at the end of goes on with the next record.  *)
(***************************************************************************)
LEMMA ChainExtends ==
    ASSUME TypeOK, NEW id \in 0..MaxAccess, sequence = Len(file), previous = Tip(file),
           Verify(file) \/ \E i \in 1..Len(file) : i < Len(file) /\ file[i].text = "unended",
           NEW g, g = Append(file, Record(id, "line"))
    PROVE  /\ Len(g) = sequence + 1 /\ Tip(g) = id
           /\ \/ Verify(g)
              \/ \E i \in 1..Len(g) : i < Len(g) /\ g[i].text = "unended"
<1> DEFINE n == Len(file)
<1>1. Record(id, "line") \in Piece /\ n \in Nat
  BY RecordType DEF TypeOK
<1>2. /\ Len(g) = n + 1 /\ g[n + 1] = Record(id, "line")
      /\ \A i \in 1..n : g[i] = file[i]
  BY <1>1 DEF TypeOK
<1>3. /\ g[n + 1].seq = n + 1 /\ g[n + 1].prev = Tip(file)
      /\ g[n + 1].hash = id /\ g[n + 1].text = "line"
  BY <1>2 DEF Record
<1>4. Tip(g) = id
  BY <1>1, <1>2, <1>3 DEF Tip
<1>5. CASE Verify(file) /\ \A i \in 1..n : file[i].text = "line"
  <2>1. ASSUME NEW i \in 1..(n + 1)
        PROVE  /\ g[i].text = "line" /\ g[i].seq = i
               /\ g[i].prev = IF i = 1 THEN Genesis ELSE g[i - 1].hash
    <3>1. CASE i = n + 1
      BY <1>1, <1>2, <1>3, <3>1 DEF Tip
    <3>2. CASE i # n + 1
      <4>1. i \in 1..n /\ (i # 1 => i - 1 \in 1..n)
        BY <1>1, <3>2
      <4> QED
        BY <1>2, <1>5, <4>1 DEF Verify
    <3> QED
      BY <3>1, <3>2
  <2> QED
    BY <1>2, <1>4, <2>1 DEF Verify
<1>6. CASE \E i \in 1..n : file[i].text = "unended"
  BY <1>1, <1>2, <1>4, <1>6
<1> QED
  BY <1>5, <1>6, <1>2, <1>4 DEF Verify

-----------------------------------------------------------------------------
(* The invariant is inductive *)

LEMMA InitInv == Init => IInv
<1> SUFFICES ASSUME Init PROVE IInv
    OBVIOUS
<1> USE BoundsAssumption DEF Init
<1>1. request \in [Requests -> Request] /\ RequestInv
  BY DEF Idle, Request, Operation, RequestInv
<1>2. file \in Seq(Piece) /\ Len(file) = 0
  OBVIOUS
<1>3. TypeOK
  BY <1>1, <1>2 DEF TypeOK, Genesis
<1>4. ServedIsRecorded
  BY DEF ServedIsRecorded
<1>5. ChainContinues
  BY <1>2 DEF ChainContinues, Tip, Verify
<1>6. TornRecordIsLast
  BY <1>2 DEF TornRecordIsLast
<1> QED
  BY <1>1, <1>3, <1>4, <1>5, <1>6 DEF IInv

(***************************************************************************)
(* A step that leaves the log alone and admits, moves on or ends a request.*)
(***************************************************************************)
LEMMA LogKept ==
    ASSUME IInv, UNCHANGED <<file, synced, sequence, previous, writer, served, failures>>,
           mode' \in {"open", "sealed", "refused"}, mode' = "refused" <=> mode = "refused",
           request' \in [Requests -> Request], issued' \in 0..MaxAccess, issued' >= issued,
           committed' \subseteq 1..issued', RequestInv'
    PROVE  IInv'
<1> USE BoundsAssumption DEF IInv
<1>1. 1..issued \subseteq 1..issued'
  BY DEF TypeOK
<1>2. TypeOK'
  BY <1>1 DEF TypeOK
<1>3. ServedIsRecorded'
  BY DEF ServedIsRecorded, Recorded
<1>4. ChainContinues' /\ TornRecordIsLast'
  BY DEF ChainContinues, TornRecordIsLast
<1> QED
  BY <1>2, <1>3, <1>4

LEMMA AdmitInv ==
    ASSUME IInv, NEW r \in Requests, NEW op \in Operation, Admit(r, op)
    PROVE  IInv'
<1> USE BoundsAssumption DEF IInv
<1>1. /\ mode # "refused" /\ issued < MaxAccess /\ issued' = issued + 1
      /\ request' = [request EXCEPT ![r] = [pc |-> "admitted", op |-> op, id |-> issued + 1]]
      /\ UNCHANGED <<file, synced, sequence, previous, writer, mode, served, committed,
                     failures>>
  BY DEF Admit, logVars
<1>2. issued \in Nat /\ issued' \in 0..MaxAccess /\ issued + 1 \in 1..issued'
      /\ 1..issued \subseteq 1..issued'
  BY <1>1 DEF TypeOK
<1>3. request' \in [Requests -> Request]
  <2>1. [pc |-> "admitted", op |-> op, id |-> issued + 1] \in Request
    BY <1>1, <1>2 DEF Request
  <2> QED
    BY <1>1, <2>1 DEF TypeOK
<1>4. RequestInv'
  BY <1>1, <1>2 DEF RequestInv, TypeOK
<1>5. committed' \subseteq 1..issued' /\ issued' >= issued
  BY <1>1, <1>2 DEF TypeOK
<1>6. mode' \in {"open", "sealed", "refused"} /\ (mode' = "refused" <=> mode = "refused")
  BY <1>1 DEF TypeOK
<1> QED
  BY <1>1, <1>2, <1>3, <1>4, <1>5, <1>6, LogKept

(***************************************************************************)
(* A request that moves to pc, or that ends.                               *)
(***************************************************************************)
LEMMA RequestMoves ==
    ASSUME IInv, NEW r \in Requests, request[r].pc # "idle",
           \/ \E pc \in {"accessed", "failing"} :
                 request' = [request EXCEPT ![r] = [@ EXCEPT !.pc = pc]]
           \/ request' = [request EXCEPT ![r] = Idle],
           issued' = issued
    PROVE  /\ request' \in [Requests -> Request]
           /\ (mode' # "refused") => RequestInv'
<1> USE BoundsAssumption DEF IInv
<1>1. CASE \E pc \in {"accessed", "failing"} :
              request' = [request EXCEPT ![r] = [@ EXCEPT !.pc = pc]]
  <2>1. PICK pc \in {"accessed", "failing"} :
              request' = [request EXCEPT ![r] = [request[r] EXCEPT !.pc = pc]]
    BY <1>1
  <2>2. [request[r] EXCEPT !.pc = pc] \in Request /\ [request[r] EXCEPT !.pc = pc].id = request[r].id
    BY DEF TypeOK, Request
  <2>3. request' \in [Requests -> Request]
    BY <2>1, <2>2 DEF TypeOK
  <2>4. \A s \in Requests : request'[s].id = request[s].id /\ (request'[s].pc # "idle" => request[s].pc # "idle")
    BY <2>1, <2>2 DEF TypeOK
  <2> QED
    BY <2>3, <2>4 DEF RequestInv
<1>2. CASE request' = [request EXCEPT ![r] = Idle]
  <2>1. Idle \in Request /\ Idle.pc = "idle"
    BY DEF Idle, Request, Operation
  <2>2. request' \in [Requests -> Request]
    BY <1>2, <2>1 DEF TypeOK
  <2>3. \A s \in Requests : request'[s] = request[s] \/ request'[s].pc = "idle"
    BY <1>2, <2>1 DEF TypeOK
  <2> QED
    BY <2>2, <2>3 DEF RequestInv
<1> QED
  BY <1>1, <1>2

LEMMA AccessInv ==
    ASSUME IInv, NEW r \in Requests, Access(r)
    PROVE  IInv'
<1> USE BoundsAssumption DEF IInv
<1>1. /\ request[r].pc # "idle"
      /\ mode' = IF request[r].op = "unseal" THEN "open" ELSE mode
      /\ committed' \in {committed, committed \cup {request[r].id}}
      /\ request' = [request EXCEPT ![r] = [@ EXCEPT !.pc = "accessed"]]
      /\ UNCHANGED <<file, synced, sequence, previous, writer, issued, served, failures>>
  BY DEF Access, logVars
<1>2. mode # "refused" /\ request[r].id \in 1..issued
  BY <1>1 DEF RequestInv
<1>3. mode' \in {"open", "sealed", "refused"} /\ mode' # "refused"
  BY <1>1, <1>2 DEF TypeOK
<1>4. request' \in [Requests -> Request] /\ RequestInv'
  BY <1>1, <1>3, RequestMoves
<1>5. committed' \subseteq 1..issued' /\ issued' >= issued /\ issued' \in 0..MaxAccess
  BY <1>1, <1>2 DEF TypeOK
<1> QED
  BY <1>1, <1>2, <1>3, <1>4, <1>5, LogKept

LEMMA DenyUnsealInv ==
    ASSUME IInv, NEW r \in Requests, DenyUnseal(r)
    PROVE  IInv'
<1> USE BoundsAssumption DEF IInv
<1>1. /\ request[r].pc # "idle"
      /\ request' = [request EXCEPT ![r] = [@ EXCEPT !.pc = "accessed"]]
      /\ UNCHANGED <<file, synced, sequence, previous, writer, mode, issued, served,
                     committed, failures>>
  BY DEF DenyUnseal, logVars
<1>2. mode' \in {"open", "sealed", "refused"} /\ mode' # "refused" /\ mode # "refused"
  BY <1>1 DEF RequestInv, TypeOK
<1>3. request' \in [Requests -> Request] /\ RequestInv'
  BY <1>1, <1>2, RequestMoves
<1>4. committed' \subseteq 1..issued' /\ issued' >= issued /\ issued' \in 0..MaxAccess
  BY <1>1 DEF TypeOK
<1> QED
  BY <1>1, <1>2, <1>3, <1>4, LogKept

LEMMA EndInv ==
    ASSUME IInv, NEW r \in Requests, AccessFails(r) \/ SealOnFailure(r)
    PROVE  IInv'
<1> USE BoundsAssumption DEF IInv
<1>1. /\ request[r].pc # "idle"
      /\ mode' = mode \/ (mode = "open" /\ mode' = "sealed")
      /\ request' = [request EXCEPT ![r] = Idle]
      /\ UNCHANGED <<file, synced, sequence, previous, writer, issued, served, committed,
                     failures>>
  BY DEF AccessFails, SealOnFailure, logVars
<1>2. mode # "refused"
  BY <1>1 DEF RequestInv
<1>3. mode' \in {"open", "sealed", "refused"} /\ mode' # "refused"
  BY <1>1, <1>2 DEF TypeOK
<1>4. request' \in [Requests -> Request] /\ RequestInv'
  BY <1>1, <1>3, RequestMoves
<1>5. committed' \subseteq 1..issued' /\ issued' >= issued /\ issued' \in 0..MaxAccess
  BY <1>1 DEF TypeOK
<1> QED
  BY <1>1, <1>2, <1>3, <1>4, <1>5, LogKept

(***************************************************************************)
(* While the writer has not failed, no record in the file is torn.         *)
(***************************************************************************)
LEMMA NoneTorn ==
    ASSUME IInv, writer = "ok", mode # "refused"
    PROVE  \A i \in 1..Len(file) : file[i].text # "partial"
BY DEF IInv, TornRecordIsLast

(***************************************************************************)
(* A record is synced before its request is answered.                      *)
(***************************************************************************)
LEMMA AppendRecordInv ==
    ASSUME IInv, NEW r \in Requests, AppendRecord(r)
    PROVE  IInv'
<1> DEFINE id == request[r].id
           p == Record(id, "line")
<1> USE BoundsAssumption DEF IInv
<1>1. /\ request[r].pc # "idle"
      /\ file' = Append(file, p) /\ synced' = Len(file) + 1
      /\ sequence' = sequence + 1 /\ previous' = id
      /\ served' \in {served, served \cup {id}}
      /\ request' = [request EXCEPT ![r] = Idle]
      /\ UNCHANGED <<writer, mode, issued, committed, failures>>
  BY DEF AppendRecord, Answer
<1>2. mode # "refused" /\ id \in 1..issued /\ id \in 0..MaxAccess
  BY <1>1 DEF RequestInv, TypeOK
<1>3. p \in Piece /\ p.hash = id /\ p.text = "line"
  <2>1. p \in Piece
    BY <1>2, RecordType
  <2> QED
    BY <2>1 DEF Record
<1> HIDE DEF p
<1>4. request' \in [Requests -> Request] /\ RequestInv'
  BY <1>1, <1>2, RequestMoves
<1>5. /\ Len(file) \in Nat /\ file' \in Seq(Piece) /\ Len(file') = Len(file) + 1
      /\ file'[Len(file) + 1] = p
  BY <1>1, <1>3 DEF TypeOK
<1>6. TypeOK'
  BY <1>1, <1>2, <1>4, <1>5 DEF TypeOK
<1>7. ServedIsRecorded'
  <2> SUFFICES ASSUME NEW i \in served' PROVE Recorded(i)'
    BY DEF ServedIsRecorded
  <2>1. CASE i \in served
    <3>1. synced' >= synced /\ synced' \in Nat
      BY <1>1, <1>5 DEF TypeOK
    <3> QED
      BY <1>1, <1>3, <2>1, <3>1, RecordsStay DEF ServedIsRecorded
  <2>2. CASE i \notin served
    <3>1. i = id
      BY <1>1, <2>2
    <3>2. Len(file) + 1 \in 1..synced'
      BY <1>1, <1>5
    <3> QED
      BY <1>3, <1>5, <3>1, <3>2 DEF Recorded
  <2> QED
    BY <2>1, <2>2
<1>8. ChainContinues'
  <2> SUFFICES ASSUME failures = 0
               PROVE  /\ sequence' = Len(file') /\ previous' = Tip(file')
                      /\ \/ Verify(file')
                         \/ \E i \in 1..Len(file') : i < Len(file') /\ file'[i].text = "unended"
    BY <1>1, <1>2 DEF ChainContinues
  <2>1. /\ sequence = Len(file) /\ previous = Tip(file)
        /\ \/ Verify(file)
           \/ \E i \in 1..Len(file) : i < Len(file) /\ file[i].text = "unended"
    BY <1>2 DEF ChainContinues
  <2>2. file' = Append(file, Record(id, "line"))
    BY <1>1 DEF p
  <2> QED
    BY <1>1, <1>2, <2>1, <2>2, ChainExtends
<1>9. TornRecordIsLast'
  <2>1. \A i \in 1..Len(file) : file[i].text # "partial"
    BY <1>2, NoneTorn DEF AppendRecord
  <2>2. \A i \in 1..Len(file) : file'[i] = file[i]
    BY <1>1, <1>3 DEF TypeOK
  <2>3. \A i \in 1..Len(file') : i \in 1..Len(file) \/ i = Len(file) + 1
    BY <1>5
  <2> QED
    BY <1>3, <1>5, <2>1, <2>2, <2>3 DEF TornRecordIsLast
<1> QED
  BY <1>4, <1>6, <1>7, <1>8, <1>9

(***************************************************************************)
(* An append that fails leaves at most one piece more, and answers nobody. *)
(***************************************************************************)
LEMMA AppendFailsInv ==
    ASSUME IInv, NEW r \in Requests,
           AppendNotSynced(r) \/ AppendNotFlushed(r) \/ AppendRefused(r)
    PROVE  IInv'
<1> USE BoundsAssumption DEF IInv
<1>1. request[r].pc # "idle" /\ Fails(r) /\ writer' \in {"ok", "failed"}
  BY DEF AppendNotSynced, AppendNotFlushed, AppendRefused, TypeOK
<1>2. mode # "refused" /\ request[r].id \in 0..MaxAccess
  BY <1>1 DEF RequestInv, TypeOK
<1>3. PICK p \in Piece : file' = Append(file, p) \/ file' = file
  <2>1. PICK text \in {"line", "unended", "partial"} :
           file' = Append(file, Record(request[r].id, text)) \/ file' = file
    BY DEF AppendNotSynced, AppendNotFlushed, AppendRefused
  <2> QED
    BY <1>2, <2>1, RecordType
<1>4. /\ failures' = failures + 1 /\ failures < MaxFailures
      /\ request' = [request EXCEPT ![r] = [@ EXCEPT !.pc = "failing"]]
      /\ UNCHANGED <<synced, sequence, previous, mode, issued, served, committed>>
  BY <1>1 DEF Fails
<1>5. request' \in [Requests -> Request] /\ RequestInv'
  BY <1>1, <1>2, <1>4, RequestMoves
<1>6. TypeOK'
  <2>1. file' \in Seq(Piece) /\ Len(file') >= Len(file) /\ Len(file') \in Nat /\ Len(file) \in Nat
    BY <1>3 DEF TypeOK
  <2>2. synced' \in 0..Len(file') /\ failures' \in 0..MaxFailures
    BY <1>4, <2>1 DEF TypeOK
  <2> QED
    BY <1>1, <1>4, <1>5, <2>1, <2>2 DEF TypeOK
<1>7. ServedIsRecorded'
  <2>1. synced' >= synced /\ synced' \in Nat
    BY <1>4 DEF TypeOK
  <2> QED
    BY <1>3, <1>4, <2>1, RecordsStay DEF ServedIsRecorded
<1>8. ChainContinues'
  <2>1. failures' # 0
    BY <1>4 DEF TypeOK
  <2> QED
    BY <2>1 DEF ChainContinues
<1>9. TornRecordIsLast'
  <2>1. CASE UNCHANGED file /\ (writer' = writer \/ writer' = "failed")
    BY <1>4, <2>1 DEF TornRecordIsLast
  <2>2. ASSUME NEW text \in {"line", "unended", "partial"}, writer = "ok",
               file' = Append(file, Record(request[r].id, text)),
               text = "partial" => writer' = "failed"
        PROVE  TornRecordIsLast'
    <3>1. PICK q \in Piece : q = Record(request[r].id, text)
      BY <1>2, RecordType
    <3>2. q.text = text
      BY <3>1 DEF Record
    <3>3. /\ Len(file') = Len(file) + 1 /\ Len(file) \in Nat /\ file'[Len(file) + 1] = q
          /\ \A i \in 1..Len(file) : file'[i] = file[i]
      BY <2>2, <3>1 DEF TypeOK
    <3>4. \A i \in 1..Len(file) : file[i].text # "partial"
      BY <1>2, <2>2, NoneTorn
    <3>5. \A i \in 1..Len(file') : i \in 1..Len(file) \/ i = Len(file')
      BY <3>3
    <3> QED
      BY <2>2, <3>2, <3>3, <3>4, <3>5 DEF TornRecordIsLast
  <2> QED
    BY <2>1, <2>2 DEF AppendNotSynced, AppendNotFlushed, AppendRefused
<1> QED
  BY <1>5, <1>6, <1>7, <1>8, <1>9

(***************************************************************************)
(* A file that keeps its synced part, torn at most at its end, is taken up *)
(* or refused.                                                             *)
(***************************************************************************)
LEMMA ReopenInv ==
    ASSUME IInv, NEW f \in Seq(Piece), Reopen(f), synced <= Len(f),
           \A i \in 1..synced : f[i] = file[i],
           \A i \in 1..Len(f) : f[i].text = "partial" => i = Len(f)
    PROVE  IInv'
<1> USE BoundsAssumption DEF IInv
<1>1. /\ file' = f /\ sequence' = Len(f) /\ previous' = Tip(f) /\ failures' = 0
      /\ mode' = IF Verify(f) THEN "sealed" ELSE "refused"
      /\ writer' = "ok" /\ request' = [s \in Requests |-> Idle]
      /\ UNCHANGED <<synced, issued, served, committed>>
  BY DEF Reopen
<1>2. request' \in [Requests -> Request] /\ RequestInv'
  BY <1>1 DEF Idle, Request, Operation, RequestInv
<1>3. TypeOK'
  <2>1. synced' \in 0..Len(file') /\ sequence' \in Nat
    BY <1>1 DEF TypeOK
  <2>2. previous' \in 0..MaxAccess
    BY <1>1, TipType
  <2> QED
    BY <1>1, <1>2, <2>1, <2>2 DEF TypeOK
<1>4. ServedIsRecorded'
  BY <1>1 DEF ServedIsRecorded, Recorded
<1>5. ChainContinues'
  BY <1>1 DEF ChainContinues
<1>6. TornRecordIsLast'
  BY <1>1 DEF TornRecordIsLast, Verify
<1> QED
  BY <1>2, <1>3, <1>4, <1>5, <1>6

LEMMA RestartInv ==
    ASSUME IInv, Restart
    PROVE  IInv'
<1> USE DEF IInv
<1>1. PICK n \in synced..Len(file) :
        \/ Reopen(SubSeq(file, 1, n))
        \/ n < Len(file) /\ Reopen(Append(SubSeq(file, 1, n),
                                         [file[n + 1] EXCEPT !.text = "partial"]))
  BY DEF Restart
<1>2. /\ synced \in Nat /\ Len(file) \in Nat /\ n \in Nat /\ synced <= n /\ n <= Len(file)
  BY DEF TypeOK
<1>3. /\ SubSeq(file, 1, n) \in Seq(Piece) /\ Len(SubSeq(file, 1, n)) = n
      /\ \A i \in 1..n : SubSeq(file, 1, n)[i] = file[i]
  BY <1>2 DEF TypeOK
<1>4. CASE Reopen(SubSeq(file, 1, n))
  <2>1. \A i \in 1..synced : SubSeq(file, 1, n)[i] = file[i]
    BY <1>2, <1>3
  <2>2. \A i \in 1..n : SubSeq(file, 1, n)[i].text = "partial" => i = n
    BY <1>2, <1>3 DEF TornRecordIsLast
  <2> QED
    BY <1>2, <1>3, <1>4, <2>1, <2>2, ReopenInv
<1>5. CASE n < Len(file) /\ Reopen(Append(SubSeq(file, 1, n),
                                         [file[n + 1] EXCEPT !.text = "partial"]))
  <2>1. file[n + 1] \in Piece
    BY <1>2, <1>5 DEF TypeOK
  <2>2. PICK p \in Piece : p = [file[n + 1] EXCEPT !.text = "partial"]
    BY <2>1 DEF Piece
  <2>3. PICK g \in Seq(Piece) : g = SubSeq(file, 1, n)
    BY <1>3
  <2>4. /\ Append(g, p) \in Seq(Piece) /\ Len(Append(g, p)) = n + 1
        /\ \A i \in 1..n : Append(g, p)[i] = g[i]
    BY <1>2, <1>3, <2>3
  <2>5. \A i \in 1..synced : Append(g, p)[i] = file[i]
    BY <1>2, <1>3, <2>3, <2>4
  <2>6. Reopen(Append(g, p)) /\ synced <= Len(Append(g, p))
    BY <1>2, <1>5, <2>2, <2>3, <2>4
  <2>7. \A i \in 1..Len(Append(g, p)) : Append(g, p)[i].text = "partial" => i = Len(Append(g, p))
    <3>1. \A i \in 1..n : file[i].text # "partial"
      BY <1>2, <1>5 DEF TornRecordIsLast
    <3>2. \A i \in 1..n : Append(g, p)[i].text # "partial"
      BY <1>3, <2>3, <2>4, <3>1
    <3> QED
      BY <1>2, <2>4, <3>2
  <2> QED
    BY <2>4, <2>5, <2>6, <2>7, ReopenInv
<1> QED
  BY <1>1, <1>4, <1>5

LEMMA RestartInAppendInv ==
    ASSUME IInv, NEW r \in Requests, RestartInAppend(r)
    PROVE  IInv'
<1> USE BoundsAssumption DEF IInv
<1>1. PICK text \in {"line", "unended", "partial"} :
        Reopen(Append(file, Record(request[r].id, text)))
  BY DEF RestartInAppend
<1>2. request[r].id \in 0..MaxAccess
  BY DEF TypeOK, Request
<1>3. PICK p \in Piece : p = Record(request[r].id, text)
  BY <1>2, RecordType
<1>4. /\ Append(file, p) \in Seq(Piece) /\ synced <= Len(Append(file, p))
      /\ \A i \in 1..synced : Append(file, p)[i] = file[i]
  BY DEF TypeOK
<1>5. \A i \in 1..Len(Append(file, p)) :
        Append(file, p)[i].text = "partial" => i = Len(Append(file, p))
  <2>1. \A i \in 1..Len(file) : file[i].text # "partial"
    BY NoneTorn DEF RestartInAppend, RequestInv
  <2>2. /\ Len(Append(file, p)) = Len(file) + 1 /\ Len(file) \in Nat
        /\ \A i \in 1..Len(file) : Append(file, p)[i] = file[i]
    BY DEF TypeOK
  <2> QED
    BY <2>1, <2>2
<1> QED
  BY <1>1, <1>3, <1>4, <1>5, ReopenInv

(***************************************************************************)
(* The inductive invariant holds in every reachable state.                 *)
(***************************************************************************)
THEOREM Invariance == Spec => []IInv
<1>1. IInv /\ [Next]_vars => IInv'
  <2> SUFFICES ASSUME IInv, [Next]_vars PROVE IInv'
    OBVIOUS
  <2>1. CASE Restart
    BY <2>1, RestartInv
  <2>2. ASSUME NEW r \in Requests, RequestStep(r) PROVE IInv'
    BY <2>2, AdmitInv, AccessInv, DenyUnsealInv, EndInv, AppendRecordInv, AppendFailsInv,
       RestartInAppendInv DEF RequestStep
  <2>3. CASE UNCHANGED vars
    <3>1. TypeOK' /\ RequestInv'
      BY <2>3 DEF IInv, TypeOK, RequestInv, vars
    <3>2. ServedIsRecorded' /\ ChainContinues' /\ TornRecordIsLast'
      BY <2>3 DEF IInv, ServedIsRecorded, Recorded, ChainContinues, TornRecordIsLast, vars
    <3> QED
      BY <3>1, <3>2 DEF IInv
  <2> QED
    BY <2>1, <2>2, <2>3 DEF Next
<1> QED
  BY <1>1, InitInv, PTL DEF Spec

(***************************************************************************)
(* Every variable of the audit trail keeps its type.                       *)
(***************************************************************************)
THEOREM TypeCorrect == Spec => []TypeOK
BY Invariance, PTL DEF IInv

(***************************************************************************)
(* Every read answered with its value, and every write answered as done,   *)
(* has its record in the part of the log that a power failure leaves,      *)
(* whatever failed before or after.                                        *)
(***************************************************************************)
THEOREM NoUnrecordedValue == Spec => []ServedIsRecorded
BY Invariance, PTL DEF IInv

(***************************************************************************)
(* A process whose appends all succeeded continues the chain it took up,   *)
(* unless it took it up in the middle of a line.                           *)
(***************************************************************************)
THEOREM ChainIsContinued == Spec => []ChainContinues
BY Invariance, PTL DEF IInv

(***************************************************************************)
(* No record ever follows one that a flush, a crash or a power failure has *)
(* torn: the writer that tore it appends nothing more, and no later        *)
(* process takes the file up.                                              *)
(***************************************************************************)
THEOREM TornRecordStaysLast == Spec => []TornRecordIsLast
BY Invariance, PTL DEF IInv

-----------------------------------------------------------------------------
(* Committed writes *)

(***************************************************************************)
(* Requests in flight have identifiers of their own, and one that has not  *)
(* made its access has committed nothing.                                  *)
(***************************************************************************)
WriteInv ==
    /\ \A r \in Requests : request[r].pc = "admitted" => request[r].id \notin committed
    /\ \A r, q \in Requests :
          r # q /\ request[r].pc # "idle" /\ request[q].pc # "idle" =>
              request[r].id # request[q].id

(***************************************************************************)
(* A step of one request ends it or takes it on, and commits nothing but   *)
(* its own write.                                                          *)
(***************************************************************************)
LEMMA WriteInvStep ==
    ASSUME IInv, WriteInv, NEW r \in Requests, RequestStep(r)
    PROVE  WriteInv'
<1> USE DEF IInv
<1>1. request \in [Requests -> Request] /\ Idle.pc = "idle"
  BY DEF TypeOK, Idle
<1>2. ASSUME NEW op \in Operation, Admit(r, op) PROVE WriteInv'
  <2>1. /\ request' = [request EXCEPT ![r] = [pc |-> "admitted", op |-> op, id |-> issued + 1]]
        /\ committed' = committed
    BY <1>2 DEF Admit
  <2>2. issued \in Nat /\ committed \subseteq 1..issued
    BY BoundsAssumption DEF TypeOK
  <2>3. \A q \in Requests : request[q].pc # "idle" => request[q].id \in 1..issued
    BY DEF RequestInv
  <2>4. request'[r].id = issued + 1 /\ \A q \in Requests : q # r => request'[q] = request[q]
    BY <1>1, <2>1
  <2> QED
    BY <2>1, <2>2, <2>3, <2>4 DEF WriteInv
<1>3. CASE Access(r)
  <2>1. /\ request'[r].pc = "accessed" /\ request'[r].id = request[r].id
        /\ \A q \in Requests : q # r => request'[q] = request[q]
        /\ committed' \subseteq committed \cup {request[r].id}
        /\ request[r].pc = "admitted"
    BY <1>1, <1>3 DEF Access, Request
  <2> QED
    BY <2>1 DEF WriteInv
<1>4. CASE \/ DenyUnseal(r) \/ AccessFails(r) \/ AppendRecord(r) \/ AppendNotSynced(r)
           \/ AppendNotFlushed(r) \/ AppendRefused(r) \/ SealOnFailure(r)
  <2>1. committed' = committed
    BY <1>4 DEF DenyUnseal, AccessFails, AppendRecord, AppendNotSynced, AppendNotFlushed,
               AppendRefused, SealOnFailure, Fails
  <2>2. \A q \in Requests : q # r => request'[q] = request[q]
    BY <1>1, <1>4 DEF DenyUnseal, AccessFails, AppendRecord, AppendNotSynced, AppendNotFlushed,
               AppendRefused, SealOnFailure, Fails, Answer
  <2>3. \/ request'[r].pc = "idle"
        \/ /\ request'[r].pc \in {"accessed", "failing"} /\ request'[r].id = request[r].id
           /\ request[r].pc # "idle"
    BY <1>1, <1>4 DEF DenyUnseal, AccessFails, AppendRecord, AppendNotSynced, AppendNotFlushed,
               AppendRefused, SealOnFailure, Fails, Answer, Request
  <2> QED
    BY <2>1, <2>2, <2>3 DEF WriteInv
<1>5. CASE RestartInAppend(r)
  BY <1>5 DEF RestartInAppend, Reopen, Idle, WriteInv
<1> QED
  BY <1>2, <1>3, <1>4, <1>5 DEF RequestStep

(***************************************************************************)
(* A step that keeps the store open accounts for every committed write it  *)
(* found accounted for.                                                    *)
(***************************************************************************)
LEMMA AccountedStep ==
    ASSUME IInv, WriteInv, NEW r \in Requests, RequestStep(r),
           NEW id \in committed, Accounted(id), mode' = "open"
    PROVE  Accounted(id)'
<1> USE BoundsAssumption DEF IInv
<1>1. request \in [Requests -> Request] /\ id # 0
  BY DEF TypeOK
<1>2. CASE AppendRecord(r)
  <2>1. request[r].id \in 0..MaxAccess
    BY <1>1 DEF Request
  <2>2. PICK p \in Piece : p = Record(request[r].id, "line")
    BY <2>1, RecordType
  <2>3. file' = Append(file, p) /\ synced' = Len(file) + 1
    BY <1>2, <2>2 DEF AppendRecord
  <2>4. synced' >= synced /\ synced' \in Nat
    BY <2>3 DEF TypeOK
  <2>5. CASE Recorded(id)
    BY <2>3, <2>4, <2>5, RecordsStay DEF Accounted
  <2>6. CASE request[r].id = id
    <3>1. file'[synced'] = p /\ synced' \in 1..synced'
      BY <2>3 DEF TypeOK
    <3>2. p.hash = id /\ p.text = "line"
      BY <2>2, <2>6 DEF Record
    <3> QED
      BY <3>1, <3>2 DEF Accounted, Recorded
  <2>7. ASSUME NEW q \in Requests, q # r, request[q].pc # "idle", request[q].id = id
        PROVE  Accounted(id)'
    <3>1. request'[q] = request[q]
      BY <1>1, <1>2, <2>7 DEF AppendRecord, Answer
    <3> QED
      BY <2>7, <3>1 DEF Accounted
  <2> QED
    BY <2>5, <2>6, <2>7 DEF Accounted
<1>3. CASE ~AppendRecord(r)
  <2>1. ~SealOnFailure(r) /\ ~RestartInAppend(r)
    BY DEF SealOnFailure, RestartInAppend, Reopen
  <2>2. CASE Recorded(id)
    <3>1. request[r].id \in 0..MaxAccess
      BY <1>1 DEF Request
    <3>2. \A text \in {"line", "unended", "partial"} : Record(request[r].id, text) \in Piece
      BY <3>1, RecordType
    <3>3. synced' = synced /\ \E p \in Piece : file' = Append(file, p) \/ file' = file
      BY <1>3, <2>1, <3>2 DEF RequestStep, Admit, Access, DenyUnseal, AccessFails,
         AppendNotSynced, AppendNotFlushed, AppendRefused, Fails, logVars
    <3>4. synced' >= synced /\ synced' \in Nat
      BY <3>3 DEF TypeOK
    <3> QED
      BY <2>2, <3>3, <3>4, RecordsStay DEF Accounted
  <2>3. ASSUME NEW q \in Requests, request[q].pc # "idle", request[q].id = id
        PROVE  Accounted(id)'
    <3>1. CASE q # r
      <4>1. request'[q] = request[q]
        BY <1>1, <1>3, <2>1, <3>1 DEF RequestStep, Admit, Access, DenyUnseal, AccessFails,
           AppendNotSynced, AppendNotFlushed, AppendRefused, Fails
      <4> QED
        BY <2>3, <4>1 DEF Accounted
    <3>2. CASE q = r
      <4>1. request[r].pc # "admitted"
        BY <2>3, <3>2 DEF WriteInv
      <4>2. AppendNotSynced(r) \/ AppendNotFlushed(r) \/ AppendRefused(r)
        BY <1>3, <2>1, <2>3, <3>2, <4>1 DEF RequestStep, Admit, Access, DenyUnseal, AccessFails
      <4>3. request'[r].pc = "failing" /\ request'[r].id = id
        BY <1>1, <2>3, <3>2, <4>2 DEF AppendNotSynced, AppendNotFlushed, AppendRefused, Fails,
           Request
      <4> QED
        BY <4>3 DEF Accounted
    <3> QED
      BY <3>1, <3>2
  <2> QED
    BY <2>2, <2>3 DEF Accounted
<1> QED
  BY <1>2, <1>3

(***************************************************************************)
(* A committed write is left with neither a record nor a handler only by a *)
(* step after which the store is not open, for any number of requests and  *)
(* failures.                                                               *)
(***************************************************************************)
THEOREM UnrecordedWritesClose == Spec => UnrecordedWriteCloses
<1>1. Init => WriteInv
  BY DEF Init, WriteInv, Idle
<1>2. IInv /\ WriteInv /\ [Next]_vars => WriteInv'
  <2> SUFFICES ASSUME IInv, WriteInv, [Next]_vars PROVE WriteInv'
    OBVIOUS
  <2>1. CASE Restart
    BY <2>1 DEF Restart, Reopen, Idle, WriteInv
  <2>2. CASE UNCHANGED vars
    BY <2>2 DEF vars, WriteInv
  <2> QED
    BY <2>1, <2>2, WriteInvStep DEF Next
<1>3. IInv /\ WriteInv /\ [Next]_vars =>
        [\A id \in committed : Accounted(id) /\ ~Accounted(id)' => mode' # "open"]_vars
  <2> SUFFICES ASSUME IInv, WriteInv, Next, NEW id \in committed,
                      Accounted(id), mode' = "open"
               PROVE  Accounted(id)'
    OBVIOUS
  <2>1. ~Restart
    BY DEF Restart, Reopen
  <2> QED
    BY <2>1, AccountedStep DEF Next
<1> QED
  BY <1>1, <1>2, <1>3, Invariance, PTL DEF Spec, UnrecordedWriteCloses

=============================================================================
