----------------------------- MODULE InodeCache -----------------------------
(***************************************************************************)
(* The table of inodes in memory (fs/inode.c) over one minix file system:  *)
(* iget, iput, get_empty_inode and sync_inodes, with minix_read_inode and  *)
(* minix_write_inode (fs/minix/inode.c), minix_new_inode, minix_free_inode *)
(* and minix_free_block (fs/minix/bitmap.c) and minix_truncate.            *)
(*                                                                         *)
(* The kernel is not preempted: a step ends at the latest where the code   *)
(* may sleep (for a locked inode, or a block that is read or written).     *)
(* Module MinixDir makes the calls.  A task that calls iget has its number *)
(* in loc.nr and goes on at loc.ret with the inode in loc.node; iput takes *)
(* the inodes in loc.puts, one after the other.                            *)
(*                                                                         *)
(* A file has at most one zone, and indirect zones are left out; so are    *)
(* times, owners, modes but for the type, pipes and device files, and      *)
(* mounted file systems.                                                   *)
(***************************************************************************)
EXTENDS Integers, Sequences, FiniteSets, FiniteSetsExt

CONSTANTS Task,
          Slot,         \* inode_table
          NInodes,      \* s_ninodes; inode 1 is the root directory
          NZones,       \* zones for data; the root directory has the first
          StopAtRaces,  \* behaviours end where the code uses stale data (see Race)
          NULL

ASSUME CacheSizes ==
    /\ NInodes \in Nat /\ NInodes > 0
    /\ NZones \in Nat /\ NZones > 0
    /\ NULL \notin Slot
    /\ StopAtRaces \in BOOLEAN

VARIABLES inode,  \* inode_table
          disk,   \* the inodes on the disk
          imap,   \* the inodes that are taken
          zmap,   \* the zones that are taken
          pc, loc \* where each task stands, and its local variables

cache == <<inode, disk, imap, zmap>>

Ino == 1..NInodes
ROOT == 1
Zone == 1..NZones

(* An inode on disk: link count, type, first zone and number of entries.   *)
NoRaw == [nlink |-> 0, kind |-> "none", zone |-> 0, size |-> 0]
Raw(i) == [nlink |-> i.nlink, kind |-> i.kind, zone |-> i.zone, size |-> i.size]

(* In memory also the number (0: none, i_dev is 0), count, lock, dirt.     *)
Cleared ==
    [num |-> 0, count |-> 0, lock |-> FALSE, dirt |-> FALSE,
     nlink |-> 0, kind |-> "none", zone |-> 0, size |-> 0]

(* The locals of a call: what it does and where, the inodes it holds (dir, *)
(* node, empty, and puts, which it is giving back), and those of the       *)
(* functions it is in.                                                     *)
Idle == [op |-> "none", sub |-> FALSE, name |-> NULL, path |-> FALSE, dir |-> NULL, node |-> NULL,
         nr |-> 0, de |-> 0, zone |-> 0, empty |-> NULL, spare |-> NULL, puts |-> <<>>, todo |-> {},
         ret |-> "done"]

Goto(p, where, what) == pc' = [pc EXCEPT ![p] = where] /\ loc' = [loc EXCEPT ![p] = what]

-----------------------------------------------------------------------------
(* write_inode of slot s, from the moment it is not locked: the inode is   *)
(* locked while its block is read, then copied and marked clean.  If it    *)
(* was freed meanwhile the copy goes astray in its block.                  *)
StartWrite(s) == inode' = [inode EXCEPT ![s].lock = TRUE] /\ UNCHANGED <<disk, imap, zmap>>
EndWrite(s) ==
    /\ disk' = IF inode[s].num = 0 THEN disk ELSE [disk EXCEPT ![inode[s].num] = Raw(inode[s])]
    /\ inode' = [inode EXCEPT ![s].lock = FALSE, ![s].dirt = FALSE]
    /\ UNCHANGED <<imap, zmap>>

-----------------------------------------------------------------------------
(* get_empty_inode.  last_inode goes round the table; the model takes any  *)
(* inode that the search may end at.  A free inode is never dirty or       *)
(* locked (CleanIsSaved says so), which leaves the loop that waits for one *)
(* and writes it without use.  No free inode is a panic: the task stays.   *)
Free == {s \in Slot : inode[s].count = 0}
GetEmpty(e) == [inode EXCEPT ![e] = [Cleared EXCEPT !.count = 1]]

(* Race: nothing keeps the inode that a directory entry named from being   *)
(* freed before iget, nor iget from taking one whose zones are being       *)
(* freed, nor free_inode from clearing one that is being written.          *)
Race(stale) == StopAtRaces => ~stale

Holding(n) == {s \in Slot : inode[s].num = n}
Wanted(n) == \E q \in Task : pc[q] \in {"iget", "scan"} /\ loc[q].nr = n
Dying(n) == \E q \in Task : pc[q] = "free" /\ inode[Head(loc[q].puts)].num = n

(* iget, with the empty inode e in the table t: look for the number.  A    *)
(* locked inode is waited for; if there is none e is filled from the disk. *)
\* Mutant: the table is not searched.
SearchBlind(p, e, t) ==
    /\ inode' = [t EXCEPT ![e].num = loc[p].nr, ![e].lock = TRUE]
    /\ Goto(p, "read", [loc[p] EXCEPT !.node = e, !.empty = NULL])

Search(p, e, t) ==
    LET found == {s \in Slot : t[s].num = loc[p].nr}
        new == [loc[p] EXCEPT !.empty = NULL]
    IN  IF found = {}
        THEN /\ inode' = [t EXCEPT ![e].num = loc[p].nr, ![e].lock = TRUE]
             /\ Goto(p, "read", [new EXCEPT !.node = e])
        ELSE \E s \in found :
               IF t[s].lock THEN inode' = t /\ Goto(p, "scan", [new EXCEPT !.empty = e])
               ELSE /\ inode' = [t EXCEPT ![s].count = @ + 1, ![e].count = @ - 1]
                    /\ Goto(p, loc[p].ret, [new EXCEPT !.node = s])

Scan(p) ==
    /\ pc[p] = "iget" /\ Race(Dying(loc[p].nr))
    /\ \E e \in Free : Search(p, e, GetEmpty(e))
    /\ UNCHANGED <<disk, imap, zmap>>

(* The inode was unlocked: the search starts over. *)
Rescan(p) ==
    /\ pc[p] = "scan" /\ Race(Dying(loc[p].nr))
    /\ \A s \in Holding(loc[p].nr) : ~inode[s].lock
    /\ Search(p, loc[p].empty, inode)
    /\ UNCHANGED <<disk, imap, zmap>>

(* minix_read_inode has its block: the inode is filled in and unlocked.    *)
ReadInode(p) ==
    LET s == loc[p].node
        raw == disk[inode[s].num]
    IN  /\ pc[p] = "read"
        /\ inode' = [inode EXCEPT ![s].lock = FALSE, ![s].nlink = raw.nlink, ![s].kind = raw.kind,
                                  ![s].zone = raw.zone, ![s].size = raw.size]
        /\ Goto(p, loc[p].ret, loc[p])
        /\ UNCHANGED <<disk, imap, zmap>>

-----------------------------------------------------------------------------
(* minix_new_inode: the first free number, or none, and iput(empty).       *)
NewInode(p) ==
    /\ pc[p] = "alloc"
    /\ \E e \in Free :
         IF Ino \ imap = {}
         THEN /\ inode' = [inode EXCEPT ![e] = Cleared]
              /\ Goto(p, loc[p].ret, [loc[p] EXCEPT !.node = NULL])
              /\ UNCHANGED imap
         ELSE LET n == Min(Ino \ imap)
              IN  /\ imap' = imap \cup {n}
                  /\ inode' = [GetEmpty(e) EXCEPT ![e].num = n, ![e].nlink = 1, ![e].dirt = TRUE]
                  /\ Goto(p, loc[p].ret, [loc[p] EXCEPT !.node = e])
    /\ UNCHANGED <<disk, zmap>>

-----------------------------------------------------------------------------
(* iput of the first inode of loc.puts *)

(* One reference is given up; then the next one, or on at loc.ret.         *)
Popped(l) == [l EXCEPT !.puts = Tail(@)]
AfterPut(p) ==
    IF Len(loc[p].puts) > 1 THEN Goto(p, "put", Popped(loc[p]))
    ELSE Goto(p, loc[p].ret, IF loc[p].ret = "done" THEN Idle ELSE Popped(loc[p]))

Drop(p, s) ==
    inode' = [inode EXCEPT ![s].count = @ - 1] /\ UNCHANGED <<disk, imap, zmap>> /\ AfterPut(p)

Put(p) ==
    LET s == Head(loc[p].puts)
    IN  /\ pc[p] = "put" /\ ~inode[s].lock
        /\ CASE inode[s].num = 0 \/ inode[s].count > 1 -> Drop(p, s)
             [] inode[s].nlink = 0 -> Goto(p, "free", loc[p]) /\ UNCHANGED cache
             [] inode[s].dirt -> StartWrite(s) /\ Goto(p, "putting", loc[p])
             [] OTHER -> Drop(p, s)

(* The inode was written, asleep: look at it again. *)
PutWritten(p) == pc[p] = "putting" /\ EndWrite(Head(loc[p].puts)) /\ Goto(p, "put", loc[p])

(* minix_free_block, and minix_truncate, which waits until nobody else     *)
(* uses the block and does nothing for an inode that has no type yet.      *)
FreeBlock(z) == zmap \ {z}

\* Mutant: the zone of a deleted file stays taken.
TruncateNothing(i) == zmap

Truncate(i) == IF i.kind = "none" THEN zmap ELSE FreeBlock(i.zone)

(* minix_put_inode for the last reference to a file without a name:        *)
(* minix_truncate, which sleeps, and minix_free_inode.  If the inode has   *)
(* got another user or a name meanwhile, only a message is printed, and    *)
(* the reference is not given up.                                          *)
PutInode(p) ==
    LET s == Head(loc[p].puts)
        i == inode[s]
    IN  /\ pc[p] = "free" /\ Race(i.lock \/ Wanted(i.num))
        /\ zmap' = Truncate(i)
        /\ IF i.count > 1 \/ i.nlink > 0
           THEN inode' = [inode EXCEPT ![s].zone = 0, ![s].size = 0, ![s].dirt = TRUE] /\ UNCHANGED imap
           ELSE inode' = [inode EXCEPT ![s] = Cleared] /\ imap' = imap \ {i.num}
        /\ UNCHANGED disk /\ AfterPut(p)

-----------------------------------------------------------------------------
(* sync_inodes: every inode in turn *)
Sync(p) ==
    /\ pc[p] = "sync"
    /\ IF loc[p].todo = {} THEN Goto(p, "done", Idle) /\ UNCHANGED cache
       ELSE \E s \in loc[p].todo :
              /\ ~inode[s].lock
              /\ IF inode[s].dirt
                 THEN StartWrite(s) /\ Goto(p, "syncing", [loc[p] EXCEPT !.spare = s])
                 ELSE UNCHANGED cache /\ Goto(p, "sync", [loc[p] EXCEPT !.todo = @ \ {s}])

Synced(p) ==
    /\ pc[p] = "syncing" /\ EndWrite(loc[p].spare)
    /\ Goto(p, "sync", [loc[p] EXCEPT !.todo = @ \ {loc[p].spare}, !.spare = NULL])

CacheStep(p) ==
    \/ Scan(p) \/ Rescan(p) \/ ReadInode(p) \/ NewInode(p)
    \/ Put(p) \/ PutWritten(p) \/ PutInode(p)
    \/ Sync(p) \/ Synced(p)
=============================================================================
