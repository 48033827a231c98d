----------------------------- MODULE EsdmProcFiles -----------------------------
(***************************************************************************)
(* A file of the proc daemon, frontends/cuse/proc_files.c: a buffer and    *)
(* its length, filled when the attributes of the file are asked for and    *)
(* read later, by several threads of the FUSE session and without a lock.  *)
(* Files do not share anything.  Writing is in EsdmPrivileges.             *)
(***************************************************************************)
EXTENDS Naturals

CONSTANTS
    Readers,            \* threads of the session
    MaxLen              \* longest text, in units of it

VARIABLES
    name,               \* the file
    valdata, vallen,    \* length of the text in the buffer, and vallen
    rpc,                \* per thread: place
    read                \* per thread: offset, size and result of a read

procVars == <<name, valdata, vallen, rpc, read>>

RGoto(r, l) == rpc' = [rpc EXCEPT ![r] = l]

(* seen: the length the offset was compared with; overlap: the file was    *)
(* filled since.                                                           *)
NoRead == [off |-> 0, asked |-> 0, seen |-> 0, copied |-> 0, overlap |-> FALSE]

(* Every read that is under way is overlapped.                             *)
Filling == read' = [r \in Readers |-> IF rpc[r] = "copy"
                                        THEN [read[r] EXCEPT !.overlap = TRUE]
                                        ELSE read[r]]

(* What a fill writes: a new uuid is of full length, a number or a status  *)
(* of any, and a call that fails empties the file.                         *)
esdm_proc_uuid == {0, MaxLen}
esdm_proc_data == 0..MaxLen
esdm_proc_get_status == 0..MaxLen
fill_data == CASE name = "uuid" -> esdm_proc_uuid
               [] name = "number" -> esdm_proc_data
               [] name = "status" -> esdm_proc_get_status

(* esdm_proc_getattr(): the text is put into the buffer and its length is  *)
(* set afterwards; boot_id is not filled.                                  *)
esdm_proc_getattr(r) ==
    /\ rpc[r] = "idle" /\ name # "boot_id"
    /\ valdata' \in fill_data
    /\ Filling
    /\ RGoto(r, "length")
    /\ UNCHANGED <<name, vallen>>

GetattrLength(r) ==
    /\ rpc[r] = "length"
    /\ vallen' = valdata
    /\ Filling
    /\ RGoto(r, "idle")
    /\ UNCHANGED <<name, valdata>>

(* esdm_proc_read(): the offset is compared with the length ...            *)
esdm_proc_read(r) ==
    /\ rpc[r] = "idle"
    /\ \E o \in 0..MaxLen, n \in 1..MaxLen :
         IF o < vallen
           THEN /\ RGoto(r, "copy")
                /\ read' = [read EXCEPT ![r] =
                     [off |-> o, asked |-> n, seen |-> vallen, copied |-> 0,
                      overlap |-> FALSE]]
           ELSE read' = [read EXCEPT ![r] = NoRead] /\ UNCHANGED rpc
    /\ UNCHANGED <<name, valdata, vallen>>

Copy(r, n) ==
    /\ rpc[r] = "copy"
    /\ read' = [read EXCEPT ![r].copied = n]
    /\ RGoto(r, "idle")
    /\ UNCHANGED <<name, valdata, vallen>>

(* Bug variant: the size is not cut off at the length.                     *)
BugReadCopy(r) == Copy(r, read[r].asked)

(* ... and the size is cut off at the length, which is read again; an      *)
(* offset beyond it makes a size_t below zero, here more than any size.    *)
Huge == 2 * MaxLen + 1
ReadCopy(r) ==
    Copy(r, IF read[r].off + read[r].asked <= vallen THEN read[r].asked
            ELSE IF read[r].off <= vallen THEN vallen - read[r].off
            ELSE Huge)

(* esdm_proc_pre_init() reads boot_id from the kernel or makes a new one.  *)
ProcInit ==
    /\ name \in {"boot_id", "uuid", "number", "status"}
    /\ valdata \in (IF name = "boot_id" THEN esdm_proc_uuid ELSE {0})
    /\ vallen = valdata
    /\ rpc = [r \in Readers |-> "idle"]
    /\ read = [r \in Readers |-> NoRead]

ProcNext == \E r \in Readers : \/ esdm_proc_getattr(r) \/ GetattrLength(r)
                               \/ esdm_proc_read(r) \/ ReadCopy(r)

ProcSpec == ProcInit /\ [][ProcNext]_procVars

-----------------------------------------------------------------------------
(* A read copies no more than was asked for and nothing from behind the    *)
(* text, although the file may be filled by others at any time: only a     *)
(* fill between the two looks at the length breaks that.                   *)
ReadInside ==
    \A r \in Readers :
      rpc[r] = "idle" /\ ~read[r].overlap =>
        /\ read[r].copied <= read[r].asked
        /\ read[r].off + read[r].copied <= read[r].seen
=============================================================================
