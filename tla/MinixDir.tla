------------------------------ MODULE MinixDir ------------------------------
(***************************************************************************)
(* Directories of the minix file system (fs/minix/namei.c) and the system  *)
(* calls that change them (fs/namei.c), over the inode table of module     *)
(* InodeCache: mknod, mkdir, symlink, link, unlink, rmdir, and a lookup    *)
(* that keeps the inode for a while (open, stat, chdir).                   *)
(*                                                                         *)
(* A path is a name in the root directory, or a name in the directory      *)
(* that the root knows as DIR.  A directory has one zone for its entries;  *)
(* "." and ".." are left out of it.  A lookup waits for the block of the   *)
(* directory at its start and gives it back at its end, asleep at both     *)
(* (unlink and rmdir keep it; the model lets them sleep there as well).    *)
(* sys_rename refuses every file system that has a rename operation, so    *)
(* that minix_rename never runs.  Symbolic links are made, not followed;   *)
(* permissions are those of the superuser; the disk does not fail.         *)
(***************************************************************************)
EXTENDS InodeCache

CONSTANTS Names,     \* file names
          DIR,       \* the name under which the root may have a directory
          NEntries,  \* entries of a zone
          Calls,     \* the calls that are made: <<operation, in DIR, name>>
          MaxCalls   \* bound: calls that are begun

Operations == {"mknod", "mkdir", "symlink", "link", "unlink", "rmdir", "use", "sync"}

ASSUME DirSizes ==
    /\ DIR \in Names
    /\ NEntries \in Nat /\ NEntries > 0
    /\ Calls \subseteq Operations \X BOOLEAN \X Names
    /\ \A c \in Calls : c[1] = "link" => ~c[2]          \* links are made in the root
    /\ \A c \in Calls : c[1] = "symlink" => c[3] # DIR  \* and none stands for DIR
    /\ MaxCalls \in Nat

VARIABLES block,   \* the entries in each zone
          begun    \* calls begun so far

vars == <<inode, disk, imap, zmap, pc, loc, block, begun>>

Entry == 1..NEntries
NoEntry == [name |-> NULL, ino |-> 0]

(* The root directory is in memory, held by the tasks for their root. *)
Init ==
    /\ \E r \in Slot :
         inode = [s \in Slot |->
            IF s # r THEN Cleared
            ELSE [Cleared EXCEPT !.num = ROOT, !.count = 1, !.nlink = 2, !.kind = "dir", !.zone = 1]]
    /\ disk = [n \in Ino |-> IF n = ROOT THEN [NoRaw EXCEPT !.nlink = 2, !.kind = "dir", !.zone = 1] ELSE NoRaw]
    /\ imap = {ROOT} /\ zmap = {1}
    /\ pc = [p \in Task |-> "done"] /\ loc = [p \in Task |-> Idle]
    /\ block = [z \in Zone |-> [e \in Entry |-> NoEntry]]
    /\ begun = 0

RootSlot == CHOOSE s \in Slot : inode[s].num = ROOT

-----------------------------------------------------------------------------
(* Every call ends with iput of the inodes it holds, in this order. *)
Finish(p, slots, l) ==
    Goto(p, "put", [l EXCEPT !.puts = slots, !.ret = "done", !.dir = NULL, !.node = NULL, !.de = 0, !.nr = 0, !.zone = 0])

(* iget(nr), then on at ret *)
Iget(p, l, ret) == Goto(p, "iget", [l EXCEPT !.ret = ret])
New(p, l) == Goto(p, "alloc", [l EXCEPT !.ret = "made"])

(* The system calls.  dir_namei starts at the root; a name in DIR is found *)
(* by way of a first lookup (path).                                        *)
Begin(p, c, where) ==
    /\ pc[p] = "done" /\ begun < MaxCalls /\ begun' = begun + 1
    /\ inode' = [inode EXCEPT ![RootSlot].count = @ + 1]
    /\ Goto(p, where, [Idle EXCEPT !.op = c[1], !.sub = c[2], !.name = c[3], !.path = c[2], !.dir = RootSlot])
    /\ UNCHANGED <<disk, imap, zmap, block>>

CallsOf(ops) == {c \in Calls : c[1] \in ops}

SysMknodMkdir(p) == \E c \in CallsOf({"mknod", "mkdir"}) : Begin(p, c, "find")
SysUnlinkRmdir(p) == \E c \in CallsOf({"unlink", "rmdir"}) : Begin(p, c, "find")
SysSymlink(p) == \E c \in CallsOf({"symlink"}) : Begin(p, c, IF c[2] THEN "find" ELSE "start")
SysLink(p) == \E c \in CallsOf({"link"}) : Begin(p, c, "old")    \* first the file, a name in the root
Namei(p) == \E c \in CallsOf({"use"}) : Begin(p, c, "find")
SysSync(p) ==
    /\ pc[p] = "done" /\ begun < MaxCalls /\ begun' = begun + 1
    /\ CallsOf({"sync"}) # {}
    /\ Goto(p, "sync", [Idle EXCEPT !.op = "sync", !.todo = Slot])
    /\ UNCHANGED <<cache, block>>

Call(p) == SysMknodMkdir(p) \/ SysUnlinkRmdir(p) \/ SysSymlink(p) \/ SysLink(p) \/ Namei(p) \/ SysSync(p)

(* What a directory inode holds, and where a name is in it *)
Entries(d) == IF inode[d].zone = 0 THEN {} ELSE {e \in 1..inode[d].size : block[inode[d].zone][e].ino # 0}
Matches(d, name) == {e \in Entries(d) : block[inode[d].zone][e].name = name}

(* permission refuses a deleted directory, and minix_lookup what is none.  *)
Refused(l) == inode[l.dir].nlink = 0 \/ (inode[l.dir].kind # "dir" /\ (l.path \/ l.op = "use"))

NameOf(l) == IF l.path THEN DIR ELSE l.name

(* lookup and the find_entry of the operations, when the block is there *)
Find(p) ==
    LET l == loc[p]
        d == l.dir
        hits == Matches(d, NameOf(l))
        hit == [l EXCEPT !.de = Min(hits), !.nr = block[inode[d].zone][Min(hits)].ino]
        held == IF l.node = NULL THEN <<d>> ELSE <<d, l.node>>
    IN  /\ pc[p] = "find"
        /\ UNCHANGED <<block, begun>>
        /\ IF Refused(l) THEN Finish(p, held, l) /\ UNCHANGED cache
           ELSE IF hits = {}
           THEN CASE l.path -> Finish(p, held, l) /\ UNCHANGED cache
                  [] ~l.path /\ l.op \in {"mknod", "mkdir"} -> New(p, l) /\ UNCHANGED cache
                  [] ~l.path /\ l.op \in {"link", "symlink"} -> Goto(p, "add", l) /\ UNCHANGED cache
                  [] OTHER -> Finish(p, held, l) /\ UNCHANGED cache
           ELSE CASE l.path -> Iget(p, hit, "entered") /\ UNCHANGED cache
                  [] ~l.path /\ l.op \in {"unlink", "rmdir", "use"} -> Iget(p, hit, l.op) /\ UNCHANGED cache
                  [] ~l.path /\ l.op = "symlink" ->
                       /\ inode' = [inode EXCEPT ![l.node].nlink = @ - 1]
                       /\ UNCHANGED <<disk, imap, zmap>>
                       /\ Finish(p, <<l.node, d>>, l)
                  [] OTHER -> Finish(p, held, l) /\ UNCHANGED cache

(* The directory of the path is found: it takes the place of the root. *)
Entered(p) ==
    LET l == [loc[p] EXCEPT !.dir = loc[p].node, !.node = NULL, !.path = FALSE, !.de = 0, !.nr = 0,
                            !.puts = <<loc[p].dir>>]
    IN  /\ pc[p] = "entered"
        /\ UNCHANGED <<cache, block, begun>>
        /\ Goto(p, "put", [l EXCEPT !.ret = IF l.op = "symlink" THEN "start" ELSE "find"])

(* symlink makes its inode before it looks for the name. *)
Start(p) ==
    /\ pc[p] = "start"
    /\ UNCHANGED <<cache, block, begun>>
    /\ IF inode[loc[p].dir].nlink = 0 THEN Finish(p, <<loc[p].dir>>, loc[p]) ELSE New(p, loc[p])

-----------------------------------------------------------------------------
(* mknod, mkdir, symlink: the new inode, or none *)
Made(p) ==
    LET l == loc[p]
    IN  /\ pc[p] = "made"
        /\ UNCHANGED <<disk, imap, zmap, block, begun>>
        /\ IF l.node = NULL THEN Finish(p, <<l.dir>>, l) /\ UNCHANGED inode
           ELSE /\ inode' = [inode EXCEPT ![l.node].dirt = TRUE,
                               ![l.node].kind = CASE l.op = "mknod" -> "file" [] l.op = "symlink" -> "link" [] OTHER -> @]
                /\ Goto(p, IF l.op = "mknod" THEN "add" ELSE "zone", l)

(* What cannot be finished: iput of the directory, then the new inode      *)
(* loses its links and is given up.                                        *)
Unmake(p) == Goto(p, "put", [loc[p] EXCEPT !.puts = <<loc[p].dir>>, !.dir = NULL, !.ret = "unmade"])
Unmade(p) ==
    /\ pc[p] = "unmade"
    /\ inode' = [inode EXCEPT ![loc[p].node].nlink = 0]
    /\ UNCHANGED <<disk, imap, zmap, block, begun>>
    /\ Finish(p, <<loc[p].node>>, loc[p])

(* minix_new_block: the bit is set, then getblk sleeps. *)
NewBlock(p) ==
    LET l == loc[p]
        free == Zone \ zmap
    IN  /\ pc[p] = "zone"
        /\ UNCHANGED <<disk, imap, block, begun>>
        /\ IF free = {}
           THEN UNCHANGED <<inode, zmap>> /\ Unmake(p)
           ELSE /\ zmap' = zmap \cup {Min(free)}
                /\ UNCHANGED inode
                /\ Goto(p, "zoned", [l EXCEPT !.zone = Min(free)])

(* The zone is cleared and belongs to the inode; a directory gets its "."  *)
(* and "..", asleep once more.                                             *)
Zoned(p) ==
    LET l == loc[p]
    IN  /\ pc[p] = "zoned"
        /\ block' = [block EXCEPT ![l.zone] = [e \in Entry |-> NoEntry]]
        /\ inode' = [inode EXCEPT ![l.node].zone = l.zone, ![l.node].dirt = TRUE]
        /\ UNCHANGED <<disk, imap, zmap, begun>>
        /\ Goto(p, IF l.op = "mkdir" THEN "dots" ELSE "find", [l EXCEPT !.zone = 0])

Dots(p) ==
    /\ pc[p] = "dots"
    /\ inode' = [inode EXCEPT ![loc[p].node].nlink = 2, ![loc[p].node].kind = "dir", ![loc[p].node].dirt = TRUE]
    /\ UNCHANGED <<disk, imap, zmap, block, begun>>
    /\ Goto(p, "add", loc[p])

(* minix_add_entry, when the block is there: the first entry that is free, *)
(* the directory growing if need be, gets the name and the inode.  A full  *)
(* directory is as if no zone could be had for it.                         *)
Room(d) == (1..NEntries) \ Entries(d)

AddEntry(p) ==
    LET l == loc[p]
        d == l.dir
        z == inode[d].zone
        e == Min(Room(d))
    IN  /\ pc[p] = "add"
        /\ UNCHANGED <<disk, imap, zmap, begun>>
        /\ IF z = 0 \/ Room(d) = {}
           THEN /\ UNCHANGED block
                /\ CASE l.op = "mkdir" -> Unmake(p) /\ UNCHANGED inode
                     [] l.op = "link" -> Finish(p, <<d, l.node>>, l) /\ UNCHANGED inode
                     [] OTHER -> Finish(p, <<l.node, d>>, l) /\ inode' = [inode EXCEPT ![l.node].nlink = @ - 1]
           ELSE /\ block' = [block EXCEPT ![z][e] = [name |-> l.name, ino |-> inode[l.node].num]]
                /\ inode' = [inode EXCEPT ![d].size = IF e > @ THEN e ELSE @, ![d].dirt = @ \/ e > inode[d].size \/ l.op = "mkdir",
                                          ![d].nlink = IF l.op = "mkdir" THEN @ + 1 ELSE @]
                /\ IF l.op = "link" THEN Goto(p, "put", [l EXCEPT !.puts = <<d>>, !.dir = NULL, !.ret = "linked"])
                   ELSE Finish(p, <<d, l.node>>, l)

\* Mutant: the inode is not marked, relying on sys_link's mark before the sleep.
LinkedClean(p) ==
    /\ pc[p] = "linked"
    /\ inode' = [inode EXCEPT ![loc[p].node].nlink = @ + 1]
    /\ UNCHANGED <<disk, imap, zmap, block, begun>>
    /\ Finish(p, <<loc[p].node>>, loc[p])

(* minix_link counts the new name after iput of the directory. *)
Linked(p) ==
    /\ pc[p] = "linked"
    /\ inode' = [inode EXCEPT ![loc[p].node].nlink = @ + 1, ![loc[p].node].dirt = TRUE]
    /\ UNCHANGED <<disk, imap, zmap, block, begun>>
    /\ Finish(p, <<loc[p].node>>, loc[p])

(* sys_link: the file of the old name, then the directory of the new one.  *)
Old(p) ==
    LET l == loc[p]
        hits == UNION {Matches(l.dir, n) : n \in Names \ {l.name}}
    IN  /\ pc[p] = "old"
        /\ UNCHANGED <<cache, block, begun>>
        /\ IF hits = {} THEN Finish(p, <<l.dir>>, l)
           ELSE \E e \in hits :
                  Iget(p, [l EXCEPT !.de = e, !.nr = block[inode[l.dir].zone][e].ino], "oldgot")

OldGot(p) ==
    LET l == [loc[p] EXCEPT !.de = 0, !.nr = 0]
    IN  /\ pc[p] = "oldgot"
        /\ inode' = [inode EXCEPT ![l.node].dirt = TRUE]
        /\ UNCHANGED <<disk, imap, zmap, block, begun>>
        /\ IF inode[l.node].kind = "dir" THEN Finish(p, <<l.node, l.dir>>, l) ELSE Goto(p, "find", l)

-----------------------------------------------------------------------------
(* The entry that unlink and rmdir found may be another's after the sleep  *)
(* in iget; neither looks again.                                           *)
Stale(l) == block[inode[l.dir].zone][l.de].ino # inode[l.node].num

Unlink(p) ==
    LET l == loc[p]
        n == inode[l.node].nlink
    IN  /\ pc[p] = "unlink"
        /\ UNCHANGED <<disk, imap, zmap, begun>>
        /\ IF inode[l.node].kind = "dir" THEN UNCHANGED <<inode, block>>
           ELSE /\ Race(Stale(l))
                /\ block' = [block EXCEPT ![inode[l.dir].zone][l.de].ino = 0]
                /\ inode' = [inode EXCEPT ![l.node].nlink = IF n = 0 THEN 0 ELSE n - 1, ![l.node].dirt = TRUE]
        /\ Finish(p, <<l.node, l.dir>>, l)

(* minix_rmdir: the directory is looked at by empty_dir, which gives its   *)
(* block back asleep; it must then have no other user.  That somebody made *)
(* a file in it during that sleep is not noticed.                          *)
Rmdir(p) ==
    LET l == loc[p]
    IN  /\ pc[p] = "rmdir"
        /\ UNCHANGED <<cache, block, begun>>
        /\ IF l.node = l.dir \/ inode[l.node].kind # "dir" \/ Entries(l.node) # {}
           THEN Finish(p, <<l.dir, l.node>>, l)
           ELSE Goto(p, "emptied", l)

\* Mutant: rmdir does not ask whether the directory is in use.
EmptiedBusy(p) ==
    LET l == loc[p]
    IN  /\ pc[p] = "emptied"
        /\ UNCHANGED <<disk, imap, zmap, begun>>
        /\ Race(Stale(l) \/ Entries(l.node) # {})
        /\ block' = [block EXCEPT ![inode[l.dir].zone][l.de].ino = 0]
        /\ inode' = [inode EXCEPT ![l.node].nlink = 0, ![l.node].dirt = TRUE,
                                  ![l.dir].nlink = @ - 1, ![l.dir].dirt = TRUE]
        /\ Finish(p, <<l.dir, l.node>>, l)

Emptied(p) ==
    LET l == loc[p]
    IN  /\ pc[p] = "emptied"
        /\ UNCHANGED <<disk, imap, zmap, begun>>
        /\ IF inode[l.node].count > 1 THEN UNCHANGED <<inode, block>>
           ELSE /\ Race(Stale(l) \/ Entries(l.node) # {})
                /\ block' = [block EXCEPT ![inode[l.dir].zone][l.de].ino = 0]
                /\ inode' = [inode EXCEPT ![l.node].nlink = 0, ![l.node].dirt = TRUE,
                                          ![l.dir].nlink = @ - 1, ![l.dir].dirt = TRUE]
        /\ Finish(p, <<l.dir, l.node>>, l)

(* _namei gives back the directory and notes the time of the access; the   *)
(* inode is given back some time later.                                    *)
Use(p) ==
    /\ pc[p] = "use"
    /\ UNCHANGED <<cache, block, begun>>
    /\ Goto(p, "put", [loc[p] EXCEPT !.puts = <<loc[p].dir>>, !.dir = NULL, !.de = 0, !.nr = 0, !.ret = "used"])
Used(p) ==
    /\ pc[p] = "used"
    /\ inode' = [inode EXCEPT ![loc[p].node].dirt = TRUE]
    /\ UNCHANGED <<disk, imap, zmap, block, begun>>
    /\ Finish(p, <<loc[p].node>>, loc[p])

Step(p) ==
    \/ CacheStep(p) /\ UNCHANGED <<block, begun>>
    \/ Find(p) \/ Entered(p) \/ Start(p) \/ Made(p) \/ Unmade(p) \/ NewBlock(p) \/ Zoned(p) \/ Dots(p)
    \/ AddEntry(p) \/ Linked(p) \/ Old(p) \/ OldGot(p) \/ Unlink(p) \/ Rmdir(p) \/ Emptied(p)
    \/ Use(p) \/ Used(p)

Next == \E p \in Task : Call(p) \/ Step(p)

Spec == Init /\ [][Next]_vars

-----------------------------------------------------------------------------
(* Properties *)

(* The inode n as the kernel knows it: in memory, or on disk. *)
Reading(s) == \E p \in Task : pc[p] = "read" /\ loc[p].node = s
Loaded(n) == {s \in Holding(n) : ~Reading(s)}
Cur(n) == IF Loaded(n) = {} THEN disk[n] ELSE Raw(inode[CHOOSE s \in Loaded(n) : TRUE])

(* References that p holds to the inode in slot s *)
Refs(p, s) ==
    Cardinality({f \in {"dir", "node", "empty"} : loc[p][f] = s})
      + Cardinality({i \in DOMAIN loc[p].puts : loc[p].puts[i] = s})

(* No inode is in memory twice: two copies would overwrite each other.     *)
(* And i_count is the number of references that tasks hold: an inode is    *)
(* never taken for another file while somebody uses it, nor kept for ever, *)
(* whatever fails and whoever sleeps.                                      *)
TableExact ==
    /\ \A n \in Ino : Cardinality(Holding(n)) <= 1
    /\ \A s \in Slot :
         inode[s].count = (IF inode[s].num = ROOT THEN 1 ELSE 0) + MapThenSumSet(LAMBDA p : Refs(p, s), Task)

(* An inode that is not dirty is on the disk as it is in memory, unless it *)
(* is to be freed; and one that nobody uses is neither dirty nor locked.   *)
(* So get_empty_inode may take any free inode without loss, and at once.   *)
CleanIsSaved ==
    \A s \in Slot :
        /\ inode[s].nlink > 0 /\ ~inode[s].dirt /\ ~Reading(s) => Raw(inode[s]) = disk[inode[s].num]
        /\ inode[s].count = 0 => ~inode[s].dirt /\ ~inode[s].lock

(* The entries of all directories that name n, and what else counts: "."   *)
(* of a directory and ".." of those in it; the new inode of a call that    *)
(* has not entered its name yet; and a link that is not counted yet.       *)
Directories == {d \in imap : Cur(d).kind = "dir" /\ Cur(d).nlink > 0 /\ Cur(d).zone # 0}
EntriesOf(d) == {e \in 1..Cur(d).size : block[Cur(d).zone][e].ino # 0}
Named(n) ==
    Cardinality({x \in Directories \X Entry : x[2] \in EntriesOf(x[1]) /\ block[Cur(x[1]).zone][x[2]].ino = n})
Dotted(n) ==
    IF n \notin Directories THEN 0
    ELSE (IF n = ROOT THEN 2 ELSE 1)
           + Cardinality({e \in EntriesOf(n) : Cur(block[Cur(n).zone][e].ino).kind = "dir"})
IsNode(p, n) == loc[p].node # NULL /\ inode[loc[p].node].num = n
Unnamed(n) == Cardinality({p \in Task : IsNode(p, n) /\ ~loc[p].path /\ loc[p].op \in {"mknod", "mkdir", "symlink"}})
Uncounted(n) == Cardinality({p \in Task : IsNode(p, n) /\ loc[p].ret = "linked"})

(* Link counts are exact, through every call that fails half way and every *)
(* interleaving up to the races: a file is freed when its last name is     *)
(* gone and not before, and no name is left in a directory that is gone.   *)
LinksExact ==
    \A n \in imap :
        IF Cur(n).nlink = 0 THEN Named(n) = Uncounted(n)
        ELSE Cur(n).nlink + Uncounted(n) = Named(n) + Dotted(n) + Unnamed(n)

(* Every zone that is taken belongs to one inode, or to a call that is     *)
(* about to give it to one; and no zone of an inode is free.               *)
ZonesOwned ==
    /\ \A z \in zmap :
         Cardinality({n \in imap : Cur(n).zone = z}) + Cardinality({p \in Task : loc[p].zone = z}) = 1
    /\ \A n \in imap : Cur(n).zone \in zmap \cup {0}
=============================================================================
