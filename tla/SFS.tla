-------------------------------- MODULE SFS --------------------------------
(***************************************************************************)
(* The FUSE file system of filesystem/src/sfs.c on its disk of 512-byte    *)
(* blocks (block.c): superblock, inode map, data map, inodes (two to a     *)
(* block), directory blocks.                                               *)
(*                                                                         *)
(* The workers are the threads of fuse_main's event loop.  sfs.c has no    *)
(* locks, so a call is cut at every block it writes and at every block it  *)
(* reads in order to write it back; navPath is cut at every component of   *)
(* the path.  The process may be killed between any two steps: what was    *)
(* written stays, the locals are gone.  A block_write of a creation may    *)
(* fail, which sfs.c notices only for the data map.                        *)
(***************************************************************************)
EXTENDS Integers, FiniteSetsExt, SequencesExt

CONSTANTS
  Worker,       \* threads that serve requests
  Writer,       \* those of them that are abandoned create and mkdir requests
  Request,      \* the requests that are made
  Name,         \* file names
  Depth,        \* bound: components of a path
  NInodes,      \* inodes (2048 in the code)
  NData,        \* data blocks (30720 in the code)
  PerMap,       \* bytes of a map block (512 in the code)
  NEntries,     \* entries of a directory block (16 in the code)
  NPointers,    \* NUM_DIRECT_POINTERS (44 in the code)
  FirstIndex,   \* the values the uninitialised i of updateDir may have
  MaxCalls,     \* bound: requests
  MaxCrashes,   \* bound: crashes
  FailAt,       \* the writes that may fail, by the point at which they are made
  MaxFailures   \* bound: writes that fail

Creations == {"create", "mkdir"}
FileStubs == {"unlink", "open", "release", "read", "write"}
DirStubs == {"rmdir", "releasedir"}
Stubs == FileStubs \union DirStubs
Calls == {"getattr", "opendir", "readdir"} \union Creations \union Stubs

ASSUME SizesAssumption ==
  /\ {NInodes, NData, PerMap, NEntries, NPointers, Depth} \subseteq Nat \ {0}
  /\ NInodes % 2 = 0 /\ NInodes % PerMap = 0 /\ NData % PerMap = 0
  /\ NEntries > 2
ASSUME WorkerAssumption == Writer \subseteq Worker /\ Request \subseteq Calls
ASSUME IndexAssumption == FirstIndex \subseteq 0..NPointers
ASSUME CallBoundsAssumption == {MaxCalls, MaxCrashes, MaxFailures} \subseteq Nat
ASSUME FailuresAssumption ==
  FailAt \subseteq {"imapWrite", "inodeWrite", "dmapWrite", "initDir", "pointerWrite",
                    "entryWrite"}

Inode == 0..(NInodes - 1)
dList == 1                       \* first data block (1089 in the code)
Block == dList..(dList + NData - 1)
INUM_FREE == NInodes             \* not the number of any inode
Slot == 0..(NPointers - 1)
Entry == 0..(NEntries - 1)
Path == UNION {[1..n -> Name] : n \in 1..Depth}
Parent(path) == SubSeq(path, 1, Len(path) - 1)

VARIABLES
  magic, imap, dmap, ilist, data,   \* the disk
  mount, block,                     \* where sfs_init is, the map block it writes
  op,                               \* the locals of the call of each worker
  reply, done,                      \* last reply; creations that returned 0
  calls, crashes, failures,         \* counted for the bounds
  cut, abandoned                        \* history: killed while formatting; creations
                                    \* that failed or were killed

disk == <<magic, imap, dmap, ilist, data>>
counts == <<calls, crashes, failures>>
vars == <<disk, mount, block, op, reply, done, counts, cut, abandoned>>

\* Blocks that were never written read as zeros.
ZeroInode == [mode |-> "none", st_ino |-> 0, directp |-> [q \in Slot |-> 0]]
ZeroDir == [k \in Entry |-> [inum |-> 0, fname |-> ""]]

Inodes == [mode : {"none", "dir", "file"}, st_ino : Inode,
           directp : [Slot -> Block \union {0}]]
Dirs == [Entry -> [inum : Inode \union {INUM_FREE},
                   fname : Name \union {"", ".", ".."}]]
MapBytes == [0..(PerMap - 1) -> {0, 1}]

Points == {"idle", "nav", "imapRead", "imapWrite", "inodeRead", "inodeWrite",
           "updateDir", "dmapRead", "dmapWrite", "initDir", "pointerRead",
           "pointerWrite", "entryRead", "entryWrite", "answer", "list"}

Idle == [pc |-> "idle", call |-> "getattr", path |-> << >>, rest |-> << >>,
         par |-> 0, targ |-> ZeroInode, inum |-> 0, place |-> 0,
         map |-> [j \in 0..(PerMap - 1) |-> 0],
         ibuff |-> [h \in {0, 1} |-> ZeroInode], m |-> ZeroDir, i |-> 0,
         before |-> {}]   \* observed: path and its children that existed at the call

\* Type correctness of the disk and of the requests in progress.
TypeOK ==
  /\ magic \in BOOLEAN /\ imap \in [Inode -> {0, 1}]
  /\ dmap \in [0..(NData - 1) -> {0, 1}]
  /\ ilist \in [Inode -> Inodes] /\ data \in [Block -> Dirs]
  /\ mount \in {"no", "maps", "rootData", "rootDir", "rootInode", "yes"}
  /\ block \in 0..((NInodes + NData) \div PerMap)
  /\ op \in [Worker -> [pc : Points, call : Calls, path : Path \union {<< >>},
                        rest : Path \union {<< >>}, par : Inode, targ : Inodes,
                        inum : Inode, place : 0..((NInodes + NData) \div PerMap),
                        map : MapBytes, ibuff : [{0, 1} -> Inodes], m : Dirs,
                        i : 0..NPointers, before : SUBSET Path]]
  /\ reply.call \in Calls /\ reply.path \in Path \union {<< >>}
  /\ reply.ret \in {0, -1} /\ reply.mode \in {"none", "dir", "file"}
  /\ reply.names \subseteq Slot \X Entry \X (Name \union {"", ".", ".."})
  /\ done \subseteq Path \X {"dir", "file"}
  /\ calls \in 0..MaxCalls /\ crashes \in 0..MaxCrashes
  /\ failures \in 0..MaxFailures /\ cut \in BOOLEAN /\ abandoned \in Nat

NoReply == [call |-> "getattr", path |-> << >>, ret |-> 0, mode |-> "none",
            names |-> {}]

-----------------------------------------------------------------------------
\* Map blocks: the bytes of block b of a map, its free bytes, a map with block
\* b overwritten.
MapBlock(map, b) == [j \in 0..(PerMap - 1) |-> map[b * PerMap + j]]
Unused(bytes) == {j \in 0..(PerMap - 1) : bytes[j] = 0}
Overwrite(map, b, bytes) ==
  [x \in DOMAIN map |-> IF x \div PerMap = b THEN bytes[x % PerMap] ELSE map[x]]
\* TakesTwo: mutant, the loop is not left after the first free byte.
TakesTwo(bytes) ==
  [j \in 0..(PerMap - 1) |-> IF j <= Min(Unused(bytes)) + 1 THEN 1 ELSE bytes[j]]
Taken(bytes) == [bytes EXCEPT ![Min(Unused(bytes))] = 1]

\* The two inodes of inode inum's block, and the inodes with it overwritten.
InodeBlock(inum) == [h \in {0, 1} |-> ilist[2 * (inum \div 2) + h]]
OverwriteInodes(inum, ibuff) ==
  [x \in Inode |-> IF x \div 2 = inum \div 2 THEN ibuff[x % 2] ELSE ilist[x]]

\* The used entries of a directory, numbered across its blocks in the order in
\* which navPath and readdir visit them.
EntryAt(dir, x) == data[dir.directp[x \div NEntries]][x % NEntries]
Used(dir) == {x \in 0..(NPointers * NEntries - 1) :
                /\ dir.directp[x \div NEntries] # 0
                /\ EntryAt(dir, x).inum # INUM_FREE}
Named(dir, n) == {x \in Used(dir) : EntryAt(dir, x).fname = n}

\* The block initDir writes.
DirBlock(selfinum, parentinum) ==
  [k \in Entry |->
     IF k = 0 THEN [inum |-> selfinum, fname |-> "."]
     ELSE IF k = 1 /\ selfinum # parentinum
          THEN [inum |-> parentinum, fname |-> ".."]
          ELSE [inum |-> INUM_FREE, fname |-> ""]]

\* The tree on the disk: the nodes below a directory, the nodes on every level,
\* with their inodes; the same with their kinds.
Children(inum) ==
  {x \in Used(ilist[inum]) : EntryAt(ilist[inum], x).fname \in Name}
Below(node) ==
  {<<Append(node[1], EntryAt(ilist[node[2]], x).fname), EntryAt(ilist[node[2]], x).inum>> :
     x \in Children(node[2])}
Nodes ==
  LET level[d \in 0..Depth] ==
        IF d = 0 THEN {<<<< >>, 0>>} ELSE UNION {Below(node) : node \in level[d-1]}
  IN  UNION {level[d] : d \in 0..Depth}
Tree == {<<node[1], ilist[node[2]].mode>> : node \in {n \in Nodes : n[1] # << >>}}
IsDir(path) ==
  \E node \in Nodes : node[1] = path /\ ilist[node[2]].mode = "dir"
Exists(path) == \E node \in Nodes : node[1] = path

-----------------------------------------------------------------------------
\* The disk file is empty or full of something else.
Init ==
  /\ magic = FALSE
  /\ \E b \in {0, 1} : /\ imap = [x \in Inode |-> b]
                        /\ dmap = [x \in 0..(NData - 1) |-> b]
  /\ ilist = [x \in Inode |-> ZeroInode] /\ data = [b \in Block |-> ZeroDir]
  /\ mount = "no" /\ block = 0
  /\ op = [w \in Worker |-> Idle] /\ reply = NoReply /\ done = {}
  /\ calls = 0 /\ crashes = 0 /\ failures = 0 /\ cut = FALSE /\ abandoned = 0

(***************************************************************************)
(* sfs_init.  A disk whose superblock has the magic number is taken as it  *)
(* is; otherwise the superblock is written first, then the maps, then the  *)
(* root directory's block, its entries and its inode.                      *)
(***************************************************************************)
sfs_init ==
  /\ mount = "no"
  /\ magic' = TRUE
  /\ mount' = IF magic THEN "yes" ELSE "maps"
  /\ block' = 0
  /\ UNCHANGED <<imap, dmap, ilist, data, op, reply, done, counts, cut, abandoned>>

IMaps == NInodes \div PerMap
DMaps == NData \div PerMap

InitMaps ==
  /\ mount = "maps" /\ block < IMaps + DMaps
  /\ LET temp == [j \in 0..(PerMap - 1) |-> IF block = 0 /\ j = 0 THEN 1 ELSE 0]
     IN  IF block < IMaps
         THEN imap' = Overwrite(imap, block, temp) /\ UNCHANGED dmap
         ELSE dmap' = Overwrite(dmap, block - IMaps, temp) /\ UNCHANGED imap
  /\ block' = block + 1
  /\ mount' = IF block' = IMaps + DMaps THEN "rootData" ELSE "maps"
  /\ UNCHANGED <<magic, ilist, data, op, reply, done, counts, cut, abandoned>>

\* reserveFreeData just after the maps were cleared; block is directp[0].
InitRootData ==
  /\ mount = "rootData" /\ mount' = "rootDir"
  /\ dmap' = Overwrite(dmap, 0, Taken(MapBlock(dmap, 0)))
  /\ block' = dList + Min(Unused(MapBlock(dmap, 0)))
  /\ UNCHANGED <<magic, imap, ilist, data, op, reply, done, counts, cut, abandoned>>

InitRootDir ==
  /\ mount = "rootDir" /\ mount' = "rootInode"
  /\ data' = [data EXCEPT ![block] = DirBlock(0, 0)]
  /\ UNCHANGED <<magic, imap, dmap, ilist, block, op, reply, done, counts, cut, abandoned>>

\* NextBlock: mutant, the number of the inode block is one too large.
NextBlock ==
  /\ mount = "rootInode" /\ mount' = "yes"
  /\ ilist' = [ilist EXCEPT ![2] = [mode |-> "dir", st_ino |-> 0,
                 directp |-> [ZeroInode.directp EXCEPT ![0] = block]]]
  /\ block' = 0
  /\ UNCHANGED <<magic, imap, dmap, data, op, reply, done, counts, cut, abandoned>>

\* The other half of the block is stack garbage.  Nobody reads inode 1 before
\* reserveFreeInode has filled it.
InitRootInode ==
  /\ mount = "rootInode" /\ mount' = "yes"
  /\ ilist' = OverwriteInodes(0,
       [h \in {0, 1} |-> IF h = 0
          THEN [mode |-> "dir", st_ino |-> 0,
                directp |-> [ZeroInode.directp EXCEPT ![0] = block]]
          ELSE ZeroInode])
  /\ block' = 0
  /\ UNCHANGED <<magic, imap, dmap, data, op, reply, done, counts, cut, abandoned>>

\* create and mkdir, from the call to the reply.
Creating(w) == op[w].pc # "idle" /\ op[w].call \in Creations
CreationsUnderWay == Cardinality({w \in Worker : Creating(w)})

\* The process is killed, in the middle of sfs_init or of calls.
Crash ==
  /\ mount # "no" /\ crashes < MaxCrashes
  /\ mount' = "no" /\ block' = 0 /\ op' = [w \in Worker |-> Idle]
  /\ reply' = NoReply /\ crashes' = crashes + 1
  /\ cut' = (cut \/ mount # "yes") /\ abandoned' = abandoned + CreationsUnderWay
  /\ UNCHANGED <<disk, done, calls, failures>>

\* Unmounting waits for the calls in progress.
sfs_destroy ==
  /\ mount = "yes" /\ \A w \in Worker : op[w].pc = "idle"
  /\ calls < MaxCalls /\ calls' = calls + 1
  /\ mount' = "no" /\ reply' = NoReply
  /\ UNCHANGED <<disk, block, op, done, crashes, failures, cut, abandoned>>

-----------------------------------------------------------------------------
Step(w, o) == op' = [op EXCEPT ![w] = o] /\ UNCHANGED <<reply, done, abandoned>>

Return(w, ret, mode, names) ==
  /\ op' = [op EXCEPT ![w] = Idle]
  /\ reply' = [call |-> op[w].call, path |-> op[w].path, ret |-> ret,
               mode |-> mode, names |-> names]
  /\ done' = done \union
       IF ret = 0 /\ op[w].call \in Creations
       THEN {<<op[w].path, IF op[w].call = "mkdir" THEN "dir" ELSE "file">>}
       ELSE {}
  /\ abandoned' = IF ret # 0 /\ op[w].call \in Creations THEN abandoned + 1 ELSE abandoned

(***************************************************************************)
(* The requests the kernel makes: it has looked up the directory, it       *)
(* creates only names it did not find, and holds a lock on a directory     *)
(* while it creates something in it.  (Concurrent creations in different   *)
(* directories are allowed.)  navPath starts at the root inode.            *)
(***************************************************************************)
KernelAsks(w, call, path) ==
  /\ IsDir(<< >>)
  /\ \/ call = "getattr" /\ IsDir(Parent(path))
     \/ call \in {"opendir", "readdir"} \union DirStubs /\ IsDir(path)
     \/ call \in FileStubs /\ Exists(path) /\ ~IsDir(path)
     \/ /\ call \in Creations /\ w \in Writer /\ path # << >>
        /\ IsDir(Parent(path)) /\ ~Exists(path)
        /\ \A v \in Worker : Creating(v) => Parent(op[v].path) # Parent(path)

\* unlink, rmdir, open, release, read, write and releasedir are stubs.
Stub(w, call, path) ==
  /\ mount = "yes" /\ op[w].pc = "idle" /\ calls < MaxCalls
  /\ call \in Stubs /\ KernelAsks(w, call, path)
  /\ reply' = [NoReply EXCEPT !.call = call, !.path = path]
  /\ calls' = calls + 1
  /\ UNCHANGED <<disk, mount, block, op, done, crashes, failures, cut, abandoned>>

Call(w, call, path) ==
  /\ call \notin Stubs
  /\ mount = "yes" /\ op[w].pc = "idle" /\ calls < MaxCalls
  /\ KernelAsks(w, call, path)
  /\ op' = [op EXCEPT ![w] =
       [Idle EXCEPT !.pc = "nav", !.call = call, !.path = path,
                    !.rest = IF call \in Creations THEN Parent(path)
                             ELSE path,
                    !.par = ilist[0].st_ino, !.targ = ilist[0],
                    !.before = IF call \in Creations THEN {}
                               ELSE {q \in Path : /\ path \in {q, Parent(q)}
                                                  /\ Exists(q)}]]
  /\ calls' = calls + 1 /\ reply' = NoReply
  /\ UNCHANGED <<disk, mount, block, done, crashes, failures, cut, abandoned>>

\* What each call does when navPath has returned.
Navigated(w, found, o) ==
  \/ /\ o.call \in {"getattr", "opendir"}
     /\ Return(w, IF found THEN 0 ELSE -1, o.targ.mode, {})
  \/ /\ o.call = "readdir"           \* whether navPath failed is ignored
     /\ IF o.targ.mode = "dir" THEN Step(w, [o EXCEPT !.pc = "list"])
        ELSE Return(w, -1, "none", {})
  \/ /\ o.call \in Creations
     /\ IF found THEN Step(w, [o EXCEPT !.pc = "imapRead"])
        ELSE Return(w, -1, "none", {})

\* One component of the path.  A component that is not found is skipped, and
\* only the last one decides whether navPath fails.
\* StickySuccess: mutant, success is not reset for the next component.
StickySuccess(o) == o.rest = << >> \/ Len(o.rest) < Len(o.path)
                    \/ Named(o.targ, Head(o.rest)) # {}
Found(o) == o.rest = << >> \/ Named(o.targ, Head(o.rest)) # {}

navPath(w) ==
  LET o == op[w]
      hits == IF o.rest = << >> THEN {} ELSE Named(o.targ, Head(o.rest))
      n == [o EXCEPT
             !.rest = IF @ = << >> THEN << >> ELSE Tail(@),
             !.par = IF o.rest = << >> THEN @ ELSE o.targ.st_ino,
             !.targ = IF hits = {} THEN @ ELSE ilist[EntryAt(@, Min(hits)).inum]]
  IN
  /\ o.pc = "nav"
  /\ IF n.rest = << >> THEN Navigated(w, Found(o), n) ELSE Step(w, n)
  /\ UNCHANGED disk

\* The names passed to filler, with their places.
\* SkipsDots: mutant, `for(j = 2;' to leave out . and ..
Listing(dir, positions) ==
  {<<x \div NEntries, x % NEntries, EntryAt(dir, x).fname>> : x \in positions}
SkipsDots(w) ==
  /\ op[w].pc = "list"
  /\ Return(w, 0, "none",
            Listing(op[w].targ, {x \in Used(op[w].targ) : x % NEntries > 1}))
  /\ UNCHANGED disk
sfs_readdir(w) ==
  /\ op[w].pc = "list"
  /\ Return(w, 0, "none", Listing(op[w].targ, Used(op[w].targ)))
  /\ UNCHANGED disk

(***************************************************************************)
(* The locals after a block_write of a creation, whether it succeeded or   *)
(* not; reserveFreeData has failed if its write has.                       *)
(***************************************************************************)
AfterWrite(o) ==
  CASE o.pc = "imapWrite" ->
         {[o EXCEPT !.pc = "inodeRead", !.map = Idle.map, !.place = 0,
                    !.inum = o.place * PerMap + Min(Unused(o.map))]}
    [] o.pc = "inodeWrite" ->
         {[o EXCEPT !.pc = "updateDir", !.ibuff = Idle.ibuff, !.i = i] : i \in FirstIndex}
    [] o.pc = "dmapWrite" ->
         {[o EXCEPT !.pc = "initDir", !.map = Idle.map, !.place = 0,
             !.targ.directp =
               [@ EXCEPT ![o.i] = o.place * PerMap + Min(Unused(o.map)) + dList]]}
    [] o.pc = "initDir" -> {[o EXCEPT !.pc = "pointerRead"]}
    [] o.pc = "pointerWrite" -> {[o EXCEPT !.pc = "entryRead", !.ibuff = Idle.ibuff]}
    [] o.pc = "entryWrite" -> {[o EXCEPT !.pc = "answer"]}
GoesOn(w) == \E o \in AfterWrite(op[w]) : Step(w, o)

WriteFails(w) ==
  /\ op[w].pc \in FailAt /\ failures < MaxFailures /\ failures' = failures + 1
  /\ IF op[w].pc = "dmapWrite" THEN Return(w, -1, "none", {}) ELSE GoesOn(w)
  /\ UNCHANGED <<disk, mount, block, calls, crashes, cut>>

(***************************************************************************)
(* reserveFreeInode, called by create and mkdir: map block by map block,   *)
(* the first free byte is taken and the inode is filled.                   *)
(***************************************************************************)
\* StaysInBlock: mutant of ScanImap, `iplace++' forgotten.
StaysInBlock(w) ==
  LET bytes == MapBlock(imap, op[w].place) IN
  /\ op[w].pc = "imapRead"
  /\ Step(w, IF Unused(bytes) = {} THEN op[w]
             ELSE [op[w] EXCEPT !.pc = "imapWrite", !.map = bytes])
  /\ UNCHANGED disk

ScanImap(w) ==
  LET o == op[w]
      bytes == MapBlock(imap, o.place)
  IN
  /\ o.pc = "imapRead"
  /\ IF o.place = IMaps THEN Return(w, -1, "none", {})
     ELSE IF Unused(bytes) = {} THEN Step(w, [o EXCEPT !.place = @ + 1])
     ELSE Step(w, [o EXCEPT !.pc = "imapWrite", !.map = bytes])
  /\ UNCHANGED disk

\* NotMarked: mutant of TakeInode, the map is not written back.
NotMarked(w) ==
  /\ op[w].pc = "imapWrite"
  /\ GoesOn(w)
  /\ UNCHANGED disk

TakeInode(w) ==
  LET o == op[w] IN
  /\ o.pc = "imapWrite"
  /\ imap' = Overwrite(imap, o.place, Taken(o.map))
  /\ GoesOn(w)
  /\ UNCHANGED <<magic, dmap, ilist, data>>

ReadInode(w) ==
  /\ op[w].pc = "inodeRead"
  /\ Step(w, [op[w] EXCEPT !.pc = "inodeWrite", !.ibuff = InodeBlock(op[w].inum)])
  /\ UNCHANGED disk

\* LeavesMode: mutant of FillInode, st_mode is not set.
LeavesMode(w) ==
  LET o == op[w] IN
  /\ o.pc = "inodeWrite"
  /\ ilist' = OverwriteInodes(o.inum, [o.ibuff EXCEPT ![o.inum % 2].st_ino = o.inum])
  /\ GoesOn(w)
  /\ UNCHANGED <<magic, imap, dmap, data>>

\* reserveFreeInode returns the number, and 0 stands for failure.
FillInode(w) ==
  LET o == op[w]
      new == [mode |-> IF o.call = "mkdir" THEN "dir" ELSE "file",
              st_ino |-> o.inum, directp |-> ZeroInode.directp]
  IN
  /\ o.pc = "inodeWrite"
  /\ ilist' = OverwriteInodes(o.inum, [o.ibuff EXCEPT ![o.inum % 2] = new])
  /\ IF o.inum = 0 THEN Return(w, -1, "none", {}) ELSE GoesOn(w)
  /\ UNCHANGED <<magic, imap, dmap, data>>

(***************************************************************************)
(* updateDir: the entry goes to the block directp[i] of the directory,     *)
(* which is allocated when it does not exist.  i does not change: when     *)
(* that block is full the loop reads it again and again.                   *)
(***************************************************************************)
updateDir(w) ==
  LET o == op[w] IN
  /\ o.pc = "updateDir"
  /\ IF o.i = NPointers THEN Return(w, -1, "none", {})
     ELSE IF o.targ.directp[o.i] = 0 THEN Step(w, [o EXCEPT !.pc = "dmapRead"])
     ELSE Step(w, [o EXCEPT !.pc = "entryRead"])
  /\ UNCHANGED disk

\* reserveFreeData.
\* Unchecked: mutant of ScanDmap, updateDir does not compare its result with -1.
Unchecked(w) ==
  LET o == op[w]
      bytes == MapBlock(dmap, o.place)
  IN
  /\ o.pc = "dmapRead"
  /\ IF o.place = DMaps
     THEN Step(w, [o EXCEPT !.pc = "initDir",
                            !.targ.directp = [@ EXCEPT ![o.i] = -1]])
     ELSE IF Unused(bytes) = {} THEN Step(w, [o EXCEPT !.place = @ + 1])
     ELSE Step(w, [o EXCEPT !.pc = "dmapWrite", !.map = bytes])
  /\ UNCHANGED disk

ScanDmap(w) ==
  LET o == op[w]
      bytes == MapBlock(dmap, o.place)
  IN
  /\ o.pc = "dmapRead"
  /\ IF o.place = DMaps THEN Return(w, -1, "none", {})
     ELSE IF Unused(bytes) = {} THEN Step(w, [o EXCEPT !.place = @ + 1])
     ELSE Step(w, [o EXCEPT !.pc = "dmapWrite", !.map = bytes])
  /\ UNCHANGED disk

TakeData(w) ==
  LET o == op[w] IN
  /\ o.pc = "dmapWrite"
  /\ dmap' = Overwrite(dmap, o.place, Taken(o.map))
  /\ GoesOn(w)
  /\ UNCHANGED <<magic, imap, ilist, data>>

initDir(w) ==
  LET o == op[w] IN
  /\ o.pc = "initDir"
  /\ data' = [data EXCEPT ![o.targ.directp[o.i]] = DirBlock(o.targ.st_ino, o.par)]
  /\ GoesOn(w)
  /\ UNCHANGED <<magic, imap, dmap, ilist>>

ReadPointers(w) ==
  LET o == op[w] IN
  /\ o.pc = "pointerRead"
  /\ Step(w, [o EXCEPT !.pc = "pointerWrite", !.ibuff = InodeBlock(o.targ.st_ino)])
  /\ UNCHANGED disk

WritePointers(w) ==
  LET o == op[w] IN
  /\ o.pc = "pointerWrite"
  /\ ilist' = OverwriteInodes(o.targ.st_ino,
       [o.ibuff EXCEPT ![o.targ.st_ino % 2].directp =
                         [@ EXCEPT ![o.i] = o.targ.directp[o.i]]])
  /\ GoesOn(w)
  /\ UNCHANGED <<magic, imap, dmap, data>>

FreeEntries(m) == {k \in Entry : m[k].inum = INUM_FREE}

ReadEntries(w) ==
  LET o == op[w]
      m == data[o.targ.directp[o.i]]
  IN
  /\ o.pc = "entryRead"
  /\ IF FreeEntries(m) = {} THEN Step(w, o)
     ELSE Step(w, [o EXCEPT !.pc = "entryWrite", !.m = m])
  /\ UNCHANGED disk

\* NotWritten: mutant, the block_write of updateDir left out.
NotWritten(w) ==
  /\ op[w].pc = "entryWrite"
  /\ GoesOn(w)
  /\ UNCHANGED disk

WriteEntry(w) ==
  LET o == op[w] IN
  /\ o.pc = "entryWrite"
  /\ data' = [data EXCEPT ![o.targ.directp[o.i]] =
       [o.m EXCEPT ![Min(FreeEntries(o.m))] = [inum |-> o.inum, fname |-> Last(o.path)]]]
  /\ GoesOn(w)
  /\ UNCHANGED <<magic, imap, dmap, ilist>>

\* create and mkdir return 0.
Succeed(w) ==
  /\ op[w].pc = "answer"
  /\ Return(w, 0, "none", {})
  /\ UNCHANGED disk

Work(w) ==
  /\ \/ navPath(w) \/ sfs_readdir(w) \/ ScanImap(w) \/ TakeInode(w)
     \/ ReadInode(w) \/ FillInode(w) \/ updateDir(w) \/ ScanDmap(w)
     \/ TakeData(w) \/ initDir(w) \/ ReadPointers(w) \/ WritePointers(w)
     \/ ReadEntries(w) \/ WriteEntry(w) \/ Succeed(w)
  /\ UNCHANGED <<mount, block, counts, cut>>

Mount == sfs_init \/ InitMaps \/ InitRootData \/ InitRootDir \/ InitRootInode

\* No more requests come.
Resting ==
  /\ mount = "yes" /\ calls = MaxCalls /\ \A w \in Worker : op[w].pc = "idle"
  /\ UNCHANGED vars

Next ==
  \/ Mount \/ Crash \/ sfs_destroy \/ Resting
  \/ \E w \in Worker, call \in Request, path \in Path \union {<< >>} :
       Call(w, call, path) \/ Stub(w, call, path)
  \/ \E w \in Worker : Work(w) \/ WriteFails(w)

Spec == Init /\ [][Next]_vars

\* A thread that serves a request goes on with it.
FairSpec == Spec /\ \A w \in Worker : WF_vars(Work(w))

-----------------------------------------------------------------------------
\* The disk implements the abstract tree: whatever the crashes, create and
\* mkdir add the whole node at once or nothing, and no node ever disappears
\* or changes its kind.
Abstract == INSTANCE FileTree WITH tree <- Tree
TreeGrowsAtomically == Abstract!Spec

\* A create or mkdir that returned 0 is on the disk, with the kind that was
\* asked for, and stays there through crashes and remounts.
Durable == done \subseteq Tree

Reachable == {node[2] : node \in Nodes}

\* The maps and the tree agree as far as safety needs: what the tree uses is
\* marked in the maps, no inode has two names and no block two owners, so the
\* next creation cannot hand out something that is in use.
Consistent ==
  mount = "yes" /\ IsDir(<< >>) =>
    /\ \A inum \in Reachable :
         /\ imap[inum] = 1 /\ ilist[inum].st_ino = inum
         /\ \A q \in Slot : ilist[inum].directp[q] # 0 =>
              dmap[ilist[inum].directp[q] - dList] = 1
    /\ \A a, b \in Reachable : \A q, r \in Slot :
         ilist[a].directp[q] = ilist[b].directp[r] /\ ilist[a].directp[q] # 0
           => a = b /\ q = r
    /\ \A a, b \in Reachable : \A x \in Children(a), y \in Children(b) :
         EntryAt(ilist[a], x).inum = EntryAt(ilist[b], y).inum => a = b /\ x = y

\* A kill loses the root directory only in the middle of sfs_init: whatever else
\* happened before, a disk that is mounted has a root inode that is a directory
\* and a block for it that begins with its own entry.
RootUnlessCut ==
  mount = "yes" /\ ~cut =>
    IsDir(<< >>) /\ EntryAt(ilist[0], 0) = [inum |-> 0, fname |-> "."]

InUse(map) == {x \in DOMAIN map : map[x] = 1}
Attached == {ilist[inum].directp[q] - dList : inum \in Reachable, q \in Slot}

\* Space is lost only where a creation failed, was killed or is under way, one
\* inode and one block each: a creation that succeeds leaves nothing behind, and
\* one that fails or is killed does not lose more than it had reserved.
LeakBounded ==
  mount = "yes" /\ ~cut =>
    \A leaked \in {InUse(imap) \ Reachable, InUse(dmap) \ Attached} :
      Cardinality(leaked) <= abandoned + CreationsUnderWay

Answered(w, call) ==
  op[w].pc # "idle" /\ op[w].call = call /\ op'[w].pc = "idle" /\ mount' = "yes"

\* getattr finds a path that existed when it was called, finds only what exists
\* and says what it is, also while another thread is creating files.
GetattrTruthful ==
  [][\A w \in Worker : Answered(w, "getattr") /\ op[w].path # << >> =>
       /\ op[w].path \in op[w].before => reply'.ret = 0
       /\ reply'.ret = 0 => <<op[w].path, reply'.mode>> \in Tree]_vars

\* readdir passes to filler no name twice, every name that was in the directory
\* when it was called and none that is not there when it returns, also while
\* another thread is creating files.
ReaddirExact ==
  [][\A w \in Worker, n \in Name : Answered(w, "readdir") =>
       LET places == {e \in reply'.names : e[3] = n} IN
       /\ Cardinality(places) <= 1
       /\ Append(op[w].path, n) \in op[w].before => places # {}
       /\ places # {} => Exists(Append(op[w].path, n))]_vars

\* Every request is answered, unless the process is killed.
Returns == \A w \in Worker : op[w].pc # "idle" ~> op[w].pc = "idle"

\* "will tell us if the current fs is what we expect" (sfs.c:45): a disk with
\* the magic number that is mounted has a root directory.  Not so: see README.
RootExists == mount = "yes" => IsDir(<< >>)

\* "Remove a file" (sfs.c:578).  Not so: see README.
UnlinkRemoves ==
  \A path \in Path : reply.call = "unlink" /\ reply.path = path => ~Exists(path)

\* "If the dir update fails, we should also probably free up the stuff we
\* allocated" (sfs.c:573): between calls every inode marked used is in the tree.
\* Not so: see README.
NoLeak ==
  mount = "yes" /\ (\A w \in Worker : op[w].pc = "idle") =>
    {inum \in Inode : imap[inum] = 1} \subseteq Reachable
=============================================================================
