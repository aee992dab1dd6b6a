---------------------------- MODULE RemoteMemory ---------------------------
(***************************************************************************)
(* What GDB is promised of the memory of the target: a write stores its    *)
(* bytes and nothing else, word after word, all the bytes of a word at     *)
(* once.  It is answered "ok" when all of them are stored, and "error"     *)
(* when it has come to a word that cannot be accessed.  A read returns the *)
(* bytes that are there, up to the first one that cannot be accessed.      *)
(* Either may be abandoned half-way.                                       *)
(***************************************************************************)
EXTENDS Integers, Sequences

CONSTANTS AddressCount, Byte, NoJob

Address == 0 .. AddressCount - 1

VARIABLES
    bytes,      \* the memory
    broken,     \* addresses that cannot be accessed
    job,        \* the access being served
    stored,     \* the bytes of a write that are stored already
    answer      \* the last answer

vars == <<bytes, broken, job, stored, answer>>

\* Addresses wrap at the end of the address space; so do ranges.
At(j, i) == (j.start + i - 1) % AddressCount

Init ==
    /\ bytes \in [Address -> Byte] /\ broken \subseteq Address
    /\ job = NoJob /\ stored = 0

Begin ==
    /\ job = NoJob /\ job' # NoJob
    /\ job'.op \in {"read", "write"} /\ job'.start \in Address /\ job'.count > 0
    /\ UNCHANGED <<bytes, broken, stored, answer>>

\* The next byte of a write, and those that share its word.
NextByte == At(job, stored + 1)
InItsWord ==
    LET room == 4 - (NextByte % 4)
        left == job.count - stored
    IN  IF room < left THEN room ELSE left

Store ==
    /\ job # NoJob /\ job.op = "write" /\ stored < job.count
    /\ NextByte \notin broken /\ stored' = stored + InItsWord
    /\ \A i \in stored + 1 .. stored' : bytes'[At(job, i)] = job.data[i]
    /\ \A a \in Address :
          bytes'[a] = bytes[a] \/ \E i \in stored + 1 .. stored' : At(job, i) = a
    /\ UNCHANGED <<broken, job, answer>>

WriteAnswer ==
    \/ /\ answer'.kind = "ok" /\ stored = job.count
       /\ \A i \in 1 .. job.count : bytes[At(job, i)] = job.data[i]
    \/ answer'.kind = "error" /\ stored < job.count /\ NextByte \in broken

ReadAnswer ==
    /\ answer'.kind = "data" /\ Len(answer'.data) <= job.count
    /\ \A i \in 1 .. Len(answer'.data) : answer'.data[i] = bytes[At(job, i)]
    /\ Len(answer'.data) < job.count => At(job, Len(answer'.data) + 1) \in broken

Answer ==
    /\ job # NoJob /\ job' = NoJob /\ stored' = 0
    /\ IF job.op = "write" THEN WriteAnswer ELSE ReadAnswer
    /\ UNCHANGED <<bytes, broken>>

\* The connection with GDB or with the CPU is lost.
Abandon ==
    /\ job # NoJob /\ job' = NoJob /\ stored' = 0
    /\ UNCHANGED <<bytes, broken, answer>>

\* Other requests have answers of their own.
Elsewhere == job = NoJob /\ UNCHANGED <<bytes, broken, job, stored>>

Next == Begin \/ Store \/ Answer \/ Abandon \/ Elsewhere

Spec == Init /\ [][Next]_vars
=============================================================================
