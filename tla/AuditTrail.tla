----------------------------- MODULE AuditTrail -----------------------------
(***************************************************************************)
(* The audit log (internal/platform/audit), the sink that seals the store  *)
(* when it fails (internal/app/app.go) and the handlers that answer only   *)
(* once their record is written (internal/modules/secret/http.go).         *)
(*                                                                         *)
(* Append holds the log's lock for its whole body and is one step for      *)
(* every other request; it can still fail at the flush or at the sync, and *)
(* the process or the machine can stop in the middle of it.                *)
(***************************************************************************)
EXTENDS Naturals, Sequences

CONSTANTS
    Requests,     \* requests in flight
    MaxAccess,    \* bound: requests ever made
    MaxFailures   \* bound: appends that fail in one life of the process

ASSUME BoundsAssumption == MaxAccess \in Nat /\ MaxFailures \in Nat

VARIABLES
    file,       \* what the operating system holds of the log
    synced,     \* how much of it a power failure would leave
    sequence,   \* Log.sequence
    previous,   \* Log.previous
    writer,     \* the buffered writer, which keeps its first error
    mode,       \* the store: open, sealed, or a server that refused to start
    request,    \* the requests in flight
    issued,     \* request identifiers given out
    served,     \* reads answered with the value, writes answered as done
    committed,  \* writes committed to the database
    failures    \* appends that failed in this life of the process

logVars == <<file, synced, sequence, previous, writer>>
vars == <<file, synced, sequence, previous, writer, mode, request, issued,
          served, committed, failures>>

-----------------------------------------------------------------------------
(* The chain *)

Genesis == 0

(***************************************************************************)
(* A piece of the file is what one append left in it: a whole line, a      *)
(* record without its newline, or less than a record. Request identifiers  *)
(* are part of a record, so the identifier stands for the record's hash.   *)
(***************************************************************************)
Piece == [seq : Nat, prev : 0..MaxAccess, hash : 0..MaxAccess,
          text : {"line", "unended", "partial"}]

Record(id, text) ==
    [seq |-> sequence + 1, prev |-> previous, hash |-> id, text |-> text]

Tip(f) == IF Len(f) = 0 THEN Genesis ELSE f[Len(f)].hash

(***************************************************************************)
(* Verify reads line by line: what follows an unended record is part of    *)
(* its line and makes it unreadable, and the scanner does not mind that    *)
(* the last line has no newline.                                           *)
(***************************************************************************)
Verify(f) ==
    \A i \in 1..Len(f) :
        /\ f[i].text = "line" \/ (i = Len(f) /\ f[i].text = "unended")
        /\ f[i].seq = i
        /\ f[i].prev = IF i = 1 THEN Genesis ELSE f[i - 1].hash

-----------------------------------------------------------------------------
(* State *)

Idle == [pc |-> "idle", op |-> "read", id |-> 0]
Operation == {"read", "write", "refusal", "unseal"}
Request == [pc : {"idle", "admitted", "accessed", "failing"}, op : Operation,
            id : 0..MaxAccess]

TypeOK ==
    /\ file \in Seq(Piece)
    /\ synced \in 0..Len(file)
    /\ sequence \in Nat
    /\ previous \in 0..MaxAccess
    /\ writer \in {"ok", "failed"}
    /\ mode \in {"open", "sealed", "refused"}
    /\ request \in [Requests -> Request]
    /\ issued \in 0..MaxAccess
    /\ served \subseteq 1..issued
    /\ committed \subseteq 1..issued
    /\ failures \in 0..MaxFailures

Init ==
    /\ file = <<>>
    /\ synced = 0
    /\ sequence = 0
    /\ previous = Genesis
    /\ writer = "ok"
    /\ mode = "sealed"
    /\ request = [r \in Requests |-> Idle]
    /\ issued = 0
    /\ served = {}
    /\ committed = {}
    /\ failures = 0

-----------------------------------------------------------------------------
(* A request, up to its record *)

(***************************************************************************)
(* requireUnsealed lets only the seal's own paths through a sealed store.  *)
(***************************************************************************)
Admit(r, op) ==
    /\ request[r].pc = "idle"
    /\ issued < MaxAccess
    /\ mode = "open" \/ (mode = "sealed" /\ op = "unseal")
    /\ issued' = issued + 1
    /\ request' = [request EXCEPT ![r] = [pc |-> "admitted", op |-> op,
                                          id |-> issued + 1]]
    /\ UNCHANGED <<logVars, mode, served, committed, failures>>

(***************************************************************************)
(* The access itself comes before its record: a value is opened, a write   *)
(* is committed, the store is unsealed. A refusal touches nothing.         *)
(***************************************************************************)
Access(r) ==
    /\ request[r].pc = "admitted"
    /\ request[r].op \in {"read", "write"} => mode = "open"
    /\ mode' = IF request[r].op = "unseal" THEN "open" ELSE mode
    /\ committed' = IF request[r].op = "write" THEN committed \cup {request[r].id}
                                               ELSE committed
    /\ request' = [request EXCEPT ![r] = [@ EXCEPT !.pc = "accessed"]]
    /\ UNCHANGED <<logVars, issued, served, failures>>

(***************************************************************************)
(* The manager refuses a share: nothing is opened, and the denial is       *)
(* recorded before the refusal is answered.                                *)
(***************************************************************************)
DenyUnseal(r) ==
    /\ request[r].pc = "admitted"
    /\ request[r].op = "unseal"
    /\ request' = [request EXCEPT ![r] = [@ EXCEPT !.pc = "accessed"]]
    /\ UNCHANGED <<logVars, mode, issued, served, committed, failures>>

(***************************************************************************)
(* The store was sealed since the request was let in, what it asks for is  *)
(* not there, or a share was malformed or not yet the last of a quorum:    *)
(* the request ends without a record.                                      *)
(***************************************************************************)
AccessFails(r) ==
    /\ request[r].pc = "admitted"
    /\ request[r].op # "refusal"
    /\ request' = [request EXCEPT ![r] = Idle]
    /\ UNCHANGED <<logVars, mode, issued, served, committed, failures>>

-----------------------------------------------------------------------------
(* Append *)

(***************************************************************************)
(* The handler answers: a read with the value, a write with its version.   *)
(***************************************************************************)
Answer(r) ==
    /\ served' = IF request[r].op \in {"read", "write"}
                 THEN served \cup {request[r].id} ELSE served
    /\ request' = [request EXCEPT ![r] = Idle]

(* Slip: the record is flushed and not synced. *)
AppendUnsyncedAnswer(r) ==
    /\ request[r].pc = "accessed"
    /\ writer = "ok"
    /\ file' = Append(file, Record(request[r].id, "line"))
    /\ sequence' = sequence + 1
    /\ previous' = request[r].id
    /\ Answer(r)
    /\ UNCHANGED <<synced, writer, mode, issued, committed, failures>>

(* Slip: the next record will not name this one. *)
AppendKeepingPrevious(r) ==
    /\ request[r].pc = "accessed"
    /\ writer = "ok"
    /\ file' = Append(file, Record(request[r].id, "line"))
    /\ synced' = Len(file) + 1
    /\ sequence' = sequence + 1
    /\ Answer(r)
    /\ UNCHANGED <<previous, writer, mode, issued, committed, failures>>

(* Slip: the record is written past the buffer, whatever failed before. *)
AppendPastFailure(r) ==
    /\ request[r].pc = "accessed"
    /\ file' = Append(file, Record(request[r].id, "line"))
    /\ synced' = Len(file) + 1
    /\ sequence' = sequence + 1
    /\ previous' = request[r].id
    /\ Answer(r)
    /\ UNCHANGED <<writer, mode, issued, committed, failures>>

AppendRecord(r) ==
    /\ request[r].pc = "accessed"
    /\ writer = "ok"
    /\ file' = Append(file, Record(request[r].id, "line"))
    /\ synced' = Len(file) + 1
    /\ sequence' = sequence + 1
    /\ previous' = request[r].id
    /\ Answer(r)
    /\ UNCHANGED <<writer, mode, issued, committed, failures>>

Fails(r) ==
    /\ failures < MaxFailures
    /\ failures' = failures + 1
    /\ request' = [request EXCEPT ![r] = [@ EXCEPT !.pc = "failing"]]
    /\ UNCHANGED <<synced, sequence, previous, mode, issued, served, committed>>

(***************************************************************************)
(* The record is in the file and the sync reports an error: the log stays  *)
(* at the record before it.                                                *)
(***************************************************************************)
AppendNotSynced(r) ==
    /\ request[r].pc = "accessed"
    /\ writer = "ok"
    /\ file' = Append(file, Record(request[r].id, "line"))
    /\ Fails(r)
    /\ UNCHANGED writer

(***************************************************************************)
(* The flush reports an error, having written nothing, part of the record, *)
(* or all of it but the newline. The writer refuses everything after.      *)
(***************************************************************************)
AppendNotFlushed(r) ==
    /\ request[r].pc = "accessed"
    /\ writer = "ok"
    /\ \/ file' = file
       \/ \E text \in {"partial", "unended"} :
             file' = Append(file, Record(request[r].id, text))
    /\ writer' = "failed"
    /\ Fails(r)

AppendRefused(r) ==
    /\ request[r].pc = "accessed"
    /\ writer = "failed"
    /\ Fails(r)
    /\ UNCHANGED <<file, writer>>

(* Slip: the sink reports the error and leaves the store open. *)
RefuseOnly(r) ==
    /\ request[r].pc = "failing"
    /\ request' = [request EXCEPT ![r] = Idle]
    /\ UNCHANGED <<logVars, mode, issued, served, committed, failures>>

(***************************************************************************)
(* sealingSink seals before the handler answers 503. Other requests may    *)
(* append, and be answered, between the failure and the seal.              *)
(***************************************************************************)
SealOnFailure(r) ==
    /\ request[r].pc = "failing"
    /\ mode' = IF mode = "open" THEN "sealed" ELSE mode
    /\ request' = [request EXCEPT ![r] = Idle]
    /\ UNCHANGED <<logVars, issued, served, committed, failures>>

-----------------------------------------------------------------------------
(* The end of the process, and the next start *)

(***************************************************************************)
(* Open takes up the chain where the file ends, or refuses to start.       *)
(***************************************************************************)
Reopen(f) ==
    /\ file' = f
    /\ mode' = IF Verify(f) THEN "sealed" ELSE "refused"
    /\ sequence' = Len(f)
    /\ previous' = Tip(f)
    /\ writer' = "ok"
    /\ failures' = 0
    /\ request' = [r \in Requests |-> Idle]
    /\ UNCHANGED <<synced, issued, served, committed>>

(***************************************************************************)
(* A power failure loses any part of what was not synced, and may leave    *)
(* part of the first record it loses.                                      *)
(***************************************************************************)
Restart ==
    \E n \in synced..Len(file) :
        \/ Reopen(SubSeq(file, 1, n))
        \/ n < Len(file) /\ Reopen(Append(SubSeq(file, 1, n),
                                         [file[n + 1] EXCEPT !.text = "partial"]))

RestartInAppend(r) ==
    /\ request[r].pc = "accessed"
    /\ writer = "ok"
    /\ \E text \in {"line", "unended", "partial"} :
          Reopen(Append(file, Record(request[r].id, text)))

-----------------------------------------------------------------------------

RequestStep(r) ==
    \/ \E op \in Operation : Admit(r, op)
    \/ Access(r) \/ DenyUnseal(r) \/ AccessFails(r)
    \/ AppendRecord(r) \/ AppendNotSynced(r) \/ AppendNotFlushed(r)
    \/ AppendRefused(r) \/ SealOnFailure(r)
    \/ RestartInAppend(r)

Next == Restart \/ \E r \in Requests : RequestStep(r)

Spec == Init /\ [][Next]_vars

(***************************************************************************)
(* A handler whose append failed runs on to the seal.                      *)
(***************************************************************************)
FairSpec == Spec /\ \A r \in Requests : WF_vars(SealOnFailure(r))

-----------------------------------------------------------------------------
(* Properties *)

Recorded(id) == \E i \in 1..synced : file[i].hash = id /\ file[i].text = "line"

(***************************************************************************)
(* A served secret is a recorded secret, and so is a write that was        *)
(* answered as done: whatever fails, and whenever the power goes, the      *)
(* whole record of the request is in the part of the file that survives    *)
(* (secret/http.go, recorded; audit/log.go, Append).                       *)
(***************************************************************************)
ServedIsRecorded == \A id \in served : Recorded(id)

(***************************************************************************)
(* A chain taken up at start goes on: while no append of this process has  *)
(* failed, memory stands at the end of the file and the file verifies,     *)
(* unless the file was taken up in the middle of a line (audit/log.go,     *)
(* Open and Append).                                                       *)
(***************************************************************************)
ChainContinues ==
    mode # "refused" /\ failures = 0 =>
        /\ sequence = Len(file)
        /\ previous = Tip(file)
        /\ Verify(file) \/ \E i \in 1..Len(file) : i < Len(file) /\ file[i].text = "unended"

(***************************************************************************)
(* Nothing is ever written behind part of a record, in the process that    *)
(* tore it or in a later one: either the writer refuses everything, however*)
(* often the custodians unseal the store, or the server has refused to     *)
(* start on what a flush, a crash or a power failure left (audit/log.go,   *)
(* Append, Open and Verify).                                               *)
(***************************************************************************)
TornRecordIsLast ==
    \A i \in 1..Len(file) : file[i].text = "partial" =>
        i = Len(file) /\ (writer = "failed" \/ mode = "refused")

(* The record of the request is in the file, or the request is under way. *)
Accounted(id) ==
    Recorded(id) \/ \E r \in Requests : request[r].pc # "idle" /\ request[r].id = id

(***************************************************************************)
(* A write is committed before its record is written, and may be left      *)
(* without one. That never goes by unnoticed: only a step after which the  *)
(* store is not open, the seal of the failed append or the end of the      *)
(* process, leaves a committed write with neither a record nor a handler,  *)
(* whatever other requests and custodians do between the failure and the   *)
(* seal (secret/http.go, handleWrite; app.go, sealingSink.Append).         *)
(***************************************************************************)
UnrecordedWriteCloses ==
    [][\A id \in committed : Accounted(id) /\ ~Accounted(id)' => mode' # "open"]_vars

(***************************************************************************)
(* A failed append seals the store: it does not stay open behind an error  *)
(* that other requests raced (app.go, sealingSink.Append).                 *)
(***************************************************************************)
FailureSeals == \A r \in Requests : request[r].pc = "failing" ~> mode # "open"

(***************************************************************************)
(* What Verify's own error says: a log that ends in the middle of a record *)
(* is refused, so a log that was accepted, and whose every append since    *)
(* succeeded, verifies.                                                    *)
(***************************************************************************)
AcceptedLogVerifies == mode # "refused" /\ failures = 0 => Verify(file)

=============================================================================
