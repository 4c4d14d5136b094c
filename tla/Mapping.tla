------------------------------- MODULE Mapping ------------------------------
(***************************************************************************)
(* Files mapped into memory by the handles of brick-mmap.h.  Copies of a   *)
(* handle share the mapping, and the last one unmaps it and closes the     *)
(* descriptor, also one that the program passed in.                        *)
(***************************************************************************)
EXTENDS Integers, FiniteSets, FiniteSetsExt

CONSTANTS Handles,
          Files,   \* a file is named by its size in pages
          Modes,   \* sets of ProtectMode
          MaxOpen  \* bound: descriptors

MappingConstants == Files \subseteq Nat /\ MaxOpen \in Nat

VARIABLES ptr, flags, size, \* of a handle; ptr is a mapping or NoMapping
          exists,    \* handles that were constructed
          mapping,   \* mapping |-> [file, fd, pages, mode]: what the deleter captured,
                     \* the pages left and their protection
          users,     \* the use count of a mapping
          fds,       \* open descriptor |-> [file, mode, owner]
          \* history
          torn,      \* handles whose last map() raised, or that were moved from
          shut       \* a descriptor was closed that was not open any more

vars == <<ptr, flags, size, exists, mapping, users, fds, torn, shut>>

NoMapping == 0
Mappings == 1..(Cardinality(Handles) + 1)
NoFile == [file |-> 0, fd |-> 0, pages |-> 0, mode |-> {}]
Closed == [file |-> 0, mode |-> {}, owner |-> "none"]
Descriptors == 1..MaxOpen

Init ==
  /\ ptr = [h \in Handles |-> NoMapping] /\ flags = [h \in Handles |-> {}]
  /\ size = [h \in Handles |-> 0] /\ exists = {}
  /\ mapping = [m \in Mappings |-> NoFile] /\ users = [m \in Mappings |-> 0]
  /\ fds = [d \in Descriptors |-> Closed] /\ torn = {} /\ shut = FALSE

IsOpen(d) == fds[d].owner # "none"
NewFd == CHOOSE d \in Descriptors : ~IsOpen(d) /\ \A e \in 1..(d - 1) : IsOpen(e)
HasFd == \E d \in Descriptors : ~IsOpen(d)
NewMapping == CHOOSE m \in Mappings : users[m] = 0 /\ mapping[m].pages = 0

-----------------------------------------------------------------------------
(* The mapping m of one handle gives way to n in another: counts, and the   *)
(* deleter of a mapping that nobody uses, which unmaps the pages and closes *)
(* the descriptor it captured.                                              *)
Counted(u, m, k) == IF m = NoMapping THEN u ELSE [u EXCEPT ![m] = @ + k]
Delete(h, m, u, maps, open) ==
  IF m = NoMapping \/ u[m] > 0 THEN mapping' = maps /\ fds' = open /\ UNCHANGED shut
  ELSE /\ mapping' = [maps EXCEPT ![m] = NoFile]
       /\ fds' = [open EXCEPT ![maps[m].fd] = Closed]
       /\ shut' = (shut \/ open[maps[m].fd].owner = "none")
Repoint(h, n, maps, open) ==
  LET u == Counted(Counted(users, n, 1), ptr[h], -1)
  IN users' = u /\ ptr' = [ptr EXCEPT ![h] = n] /\ Delete(h, ptr[h], u, maps, open)

(* _map(fd) of a descriptor that is open as given.  When it raises, a       *)
(* handle that exists has the new mode, and the new size if fstat() went    *)
(* well; one under construction is not made.                                *)
Fails(h, mode, n, open) ==
  /\ flags' = IF h \in exists THEN [flags EXCEPT ![h] = mode] ELSE flags
  /\ size' = IF h \in exists THEN [size EXCEPT ![h] = n] ELSE size
  /\ torn' = IF h \in exists THEN torn \cup {h} ELSE torn
  /\ fds' = open /\ UNCHANGED <<ptr, exists, mapping, users, shut>>
CanMap(d, open, mode) ==
  /\ open[d].file > 0 /\ "Read" \in open[d].mode
  /\ {"Write", "Shared"} \subseteq mode => "Write" \in open[d].mode
MapFails(h, d, mode, open) ==
  \/ Fails(h, mode, size[h], open)            \* fstat
  \/ Fails(h, mode, open[d].file, open)       \* mmap: the file is empty, the mode, no memory
Maps(h, d, mode, open) ==
  LET new == [file |-> open[d].file, fd |-> d, pages |-> open[d].file, mode |-> mode]
  IN /\ CanMap(d, open, mode)
     /\ flags' = [flags EXCEPT ![h] = mode] /\ size' = [size EXCEPT ![h] = new.pages]
     /\ exists' = exists \cup {h} /\ torn' = torn \ {h}
     /\ Repoint(h, NewMapping, [mapping EXCEPT ![NewMapping] = new], open)

(* _openFlags: a mode without Read or Write is an assertion of the code.    *)
OpenFlags(mode) == mode \cap {"Read", "Write"}
Opened(f, mode, owner) == [fds EXCEPT ![NewFd] = [file |-> f, mode |-> OpenFlags(mode), owner |-> owner]]
mapFile(h, f, mode) ==
  LET open == Opened(f, mode, "handle")
  IN /\ OpenFlags(mode) # {}
     /\ \/ Fails(h, mode, size[h], fds)          \* open
        \/ HasFd /\ (MapFails(h, NewFd, mode, open) \/ Maps(h, NewFd, mode, open))
mapFd(h, d, mode) ==
  /\ fds[d].owner = "program"
  /\ \/ MapFails(h, d, mode, fds)
     \/ Maps(h, d, mode, [fds EXCEPT ![d].owner = "handle"])

(* The program opens descriptors of its own, and closes those it did not    *)
(* hand over.                                                               *)
Open(f, mode) ==
  /\ HasFd /\ fds' = Opened(f, mode, "program")
  /\ UNCHANGED <<ptr, flags, size, exists, mapping, users, torn, shut>>
Close(d) ==
  /\ fds[d].owner = "program" /\ fds' = [fds EXCEPT ![d] = Closed]
  /\ UNCHANGED <<ptr, flags, size, exists, mapping, users, torn, shut>>

Construct(h) ==
  /\ h \notin exists /\ exists' = exists \cup {h}
  /\ UNCHANGED <<ptr, flags, size, mapping, users, fds, torn, shut>>

unmap(h) ==
  /\ h \in exists
  /\ Repoint(h, NoMapping, mapping, fds)
  /\ size' = [size EXCEPT ![h] = 0] /\ torn' = torn \ {h}
  /\ UNCHANGED <<flags, exists>>

Copy(h, g) ==
  /\ h \in exists /\ g # h
  /\ Repoint(g, ptr[h], mapping, fds)
  /\ size' = [size EXCEPT ![g] = size[h]] /\ flags' = [flags EXCEPT ![g] = flags[h]]
  /\ exists' = exists \cup {g}
  /\ torn' = IF h \in torn THEN torn \cup {g} ELSE torn \ {g}

(* The implicit move, construction or assignment: the pointer goes over,    *)
(* but the source keeps its size and its flags.                             *)
Move(h, g) ==
  /\ h \in exists /\ g # h
  /\ LET u == Counted(users, ptr[g], -1)
     IN users' = u /\ Delete(g, ptr[g], u, mapping, fds)
  /\ ptr' = [ptr EXCEPT ![g] = ptr[h], ![h] = NoMapping]
  /\ size' = [size EXCEPT ![g] = size[h]] /\ flags' = [flags EXCEPT ![g] = flags[h]]
  /\ exists' = exists \cup {g}
  /\ torn' = (IF h \in torn THEN torn \cup {g} ELSE torn \ {g}) \cup {h}

Destroy(h) ==
  /\ h \in exists /\ exists' = exists \ {h}
  /\ Repoint(h, NoMapping, mapping, fds)
  /\ size' = [size EXCEPT ![h] = 0] /\ flags' = [flags EXCEPT ![h] = {}] /\ torn' = torn \ {h}

Next ==
  \/ \E h \in Handles : \/ Construct(h) \/ unmap(h) \/ Destroy(h)
                        \/ \E g \in Handles : Copy(h, g) \/ Move(h, g)
                        \/ \E f \in Files, mode \in Modes : mapFile(h, f, mode)
                        \/ \E d \in Descriptors, mode \in Modes : mapFd(h, d, mode)
  \/ \E f \in Files, mode \in Modes : Open(f, mode)
  \/ \E d \in Descriptors : Close(d)

Spec == Init /\ [][Next]_vars

-----------------------------------------------------------------------------
TypeOK ==
  /\ ptr \in [Handles -> Mappings \cup {NoMapping}] /\ flags \in [Handles -> Modes \cup {{}}]
  /\ size \in [Handles -> Files] /\ exists \subseteq Handles /\ torn \subseteq exists
  /\ users \in [Mappings -> 0..Cardinality(Handles)]

(* A mapping is there as long as a handle points to it, with all its pages, *)
(* and no longer.                                                           *)
MappedWhileUsed ==
  \A m \in Mappings :
    /\ users[m] = Cardinality({h \in Handles : ptr[h] = m})
    /\ IF users[m] > 0 THEN mapping[m].pages = mapping[m].file /\ mapping[m].file > 0
                       ELSE mapping[m].pages = 0

(* Every mapping has its descriptor, open and of no other mapping, and no   *)
(* descriptor is closed twice.                                              *)
Owns(m, d) == users[m] > 0 /\ mapping[m].fd = d
DescriptorsOwned ==
  /\ ~shut
  /\ \A m \in Mappings : users[m] > 0 =>
       /\ fds[mapping[m].fd].owner = "handle"
       /\ fds[mapping[m].fd].file = mapping[m].file
       /\ \A n \in Mappings \ {m} : users[n] > 0 => mapping[n].fd # mapping[m].fd

(* A handle has the size and the protection of what it points to, whatever  *)
(* is done with copies of it: but for one whose last map() raised, and one  *)
(* that was moved from, which keeps the size of what it has no more         *)
(* (_map, and the implicit move of MMap).                                   *)
SizeRight ==
  \A h \in exists \ torn :
    IF ptr[h] = NoMapping THEN size[h] = 0
    ELSE size[h] = mapping[ptr[h]].file /\ flags[h] = mapping[ptr[h]].mode

(* The descriptor of a mapping is closed with its last handle, then and not *)
(* before.                                                                  *)
ClosedWithLastStep ==
  \A d \in Descriptors :
    /\ fds[d].owner = "handle" /\ fds'[d] = Closed => \E m \in Mappings : Owns(m, d) /\ users'[m] = 0
    /\ (\E m \in Mappings : Owns(m, d) /\ users'[m] = 0) => fds'[d] = Closed
ClosedWithLast == [][ClosedWithLastStep]_vars
=============================================================================
