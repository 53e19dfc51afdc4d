------------------------------ MODULE Virtio9p ------------------------------
(***************************************************************************)
(* The 9p file system device (virtio.cpp) over a directory of the host     *)
(* (fs_disk.cpp): the guest's fids, the FSFile behind each of them, the    *)
(* host files they hold open, and what becomes of a fid when paths change  *)
(* under it.  One action is one request: the device answers each before it *)
(* takes the next, unless the file system opens in the background.         *)
(***************************************************************************)
EXTENDS Integers, Sequences, FiniteSets, SequencesExt, FiniteSetsExt, WellFoundedInduction, TLAPS

CONSTANTS
  Fid,        \* fids the guest uses
  Name,       \* file names
  Depth,      \* longest path below root_path
  MaxIno,     \* inodes of the host's directory tree, the root is 1
  MaxHandle,  \* files the host lets the program hold open
  Async       \* fs_open may return 1 and call back

P9Assumption ==
  /\ IsFiniteSet(Fid) /\ Fid \subseteq Nat \ {0} /\ Depth \in Nat /\ MaxIno \in Nat \ {0}
  /\ MaxHandle \in Nat /\ Async \in BOOLEAN

Path == UNION {[1..n -> Name] : n \in 0..Depth}

VARIABLES
  tree,     \* host: the inode at each path, 0 where there is none
  kind,     \* host: "dir", "file" or "link" of each inode
  handles,  \* host: the inode behind each descriptor, 0 when it is closed
  file,     \* the FSFile of each fid, NoFile when the fid is not in fid_list
  busy,     \* fid whose fs_open is in progress (req_in_progress), or none
  reply,    \* what the last request was answered
  named     \* history: the inode a fid was given for, 0 once its path was touched

vars == <<tree, kind, handles, file, busy, reply, named>>
host == <<tree, kind, handles>>

NoFile == [path |-> <<>>, opened |-> FALSE, dir |-> FALSE, h |-> 0, used |-> FALSE]
None == 0

\* fid_create; path is the complete path, relative to root_path here.
FidCreate(path) == [NoFile EXCEPT !.path = path, !.used = TRUE]

Ok == "ok"
Eproto == "eproto"
Failed == "error"

-----------------------------------------------------------------------------
(* Host: the calls fs_disk.cpp makes.  Symbolic links dangle.               *)

At(p) == IF p \in Path THEN tree[p] ELSE 0
IsDir(p) == At(p) # 0 /\ kind[At(p)] = "dir"
Vacant(p) == p \in Path /\ p # <<>> /\ tree[p] = 0 /\ IsDir(Front(p))
Children(p) == {x \in Path : IsStrictPrefix(p, x) /\ tree[x] # 0}
FreeIno == {i \in 2..MaxIno : i \notin Range(tree) /\ i \notin Range(handles)}

HostAdds(p, i, k) == /\ tree' = [tree EXCEPT ![p] = i]
                     /\ kind' = [kind EXCEPT ![i] = k]

\* The paths that a rename or a removal takes away from the fids that have them.
Touched(p) == {f \in Fid : file[f].used /\ IsPrefix(p, file[f].path)}
Forget(fs) == named' = [f \in Fid |-> IF f \in fs THEN 0 ELSE named[f]]

-----------------------------------------------------------------------------
(* fs_disk.cpp: fs_close, fs_delete, compose_path *)

\* is_dir and u mean nothing while is_opened is FALSE.
Closed(f) == [f EXCEPT !.opened = FALSE, !.dir = FALSE, !.h = 0]

\* The descriptors after fs_close(f).
Close(hs, f) == IF f.opened THEN [hs EXCEPT ![f.h] = 0] ELSE hs

ComposePath(path, name) == Append(path, name)

-----------------------------------------------------------------------------
(* virtio.cpp: the list of fids *)

\* Mutant: a fid that is given anew loses its FSFile without fs_delete.
DeletedBySetFault(hs, fid) == hs

DeletedBySet(hs, fid) == Close(hs, file[fid])

\* fid_set
FidSet(fid, f, ino) == /\ file' = [file EXCEPT ![fid] = f]
                       /\ handles' = DeletedBySet(handles, fid)
                       /\ named' = [named EXCEPT ![fid] = ino]

Answer(r) == reply' = r /\ UNCHANGED busy

\* Requests that leave everything as it is, and the ones that are refused.
JustAnswer(r) == Answer(r) /\ UNCHANGED <<host, file, named>>

-----------------------------------------------------------------------------
(* Requests; all wait while an open is in progress (virtio_9p_recv_request). *)

Idle == busy = None
Known(fid) == Idle /\ file[fid].used

\* These look at no fid.
Statfs == Idle /\ JustAnswer(Ok)
Xattrwalk == Idle /\ JustAnswer(Failed)
Fsync == Idle /\ JustAnswer(Ok)
Version == Idle /\ JustAnswer(Ok)      \* sets msize; the fids stay
Flush == Idle /\ JustAnswer(Ok)

\* A header or argument that cannot be read, an unknown id, a fid not in the list.
Refused == Idle /\ JustAnswer(Eproto)

FsAttach == FidCreate(<<>>)      \* fails when lstat of root_path does

Attach(fid, fails) ==
  /\ Idle
  /\ IF fails THEN JustAnswer(Failed)
     ELSE FidSet(fid, FsAttach, At(<<>>)) /\ Answer(Ok) /\ UNCHANGED <<tree, kind>>

\* fs_walk: as many of the names as exist.
Walked(path, names) ==
  LET full(n) == path \o SubSeq(names, 1, n)
      found == {n \in 0..Len(names) : \A k \in 1..n : At(full(k)) # 0}
  IN full(Max(found))

\* newfid may be fid itself; it is set also when only a part was found.
Walk(fid, newfid, names) ==
  /\ Known(fid)
  /\ LET p == Walked(file[fid].path, names)
         known == IF names = <<>> \/ named[fid] = 0 THEN named[fid] ELSE At(p)
     IN FidSet(newfid, FidCreate(p), known)
  /\ Answer(Ok) /\ UNCHANGED <<tree, kind>>

\* Mutant: a file is opened as a directory when the flag asks for one.
OpenedFault(f, hs, dirFlag, fails) ==
  LET free == {h \in DOMAIN hs : hs[h] = 0}
      ino == At(f.path)
  IN IF fails \/ ino = 0 \/ free = {}
     THEN [err |-> TRUE, file |-> Closed(f), handles |-> hs]
     ELSE [err |-> FALSE, handles |-> [hs EXCEPT ![Min(free)] = ino],
           file |-> [f EXCEPT !.opened = TRUE, !.dir = dirFlag, !.h = Min(free)]]

\* fs_open up to the host's open; fails is the host's error.
Opened(f, hs, dirFlag, fails) ==
  LET free == {h \in DOMAIN hs : hs[h] = 0}
      h == Min(free)
      ino == At(f.path)
  IN IF \/ fails \/ ino = 0 \/ free = {}
        \/ kind[ino] = "link" \/ (dirFlag /\ kind[ino] # "dir")
     THEN [err |-> TRUE, file |-> Closed(f), handles |-> hs]
     ELSE [err |-> FALSE, handles |-> [hs EXCEPT ![h] = ino],
           file |-> [f EXCEPT !.opened = TRUE, !.dir = dirFlag, !.h = h]]

\* lopen; fs_open first closes what is open.
Lopen(fid, dirFlag, fails) ==
  /\ Known(fid)
  /\ LET r == Opened(Closed(file[fid]), Close(handles, file[fid]), dirFlag, fails)
     IN /\ file' = [file EXCEPT ![fid] = r.file]
        /\ handles' = r.handles
        /\ Answer(IF r.err THEN Failed ELSE Ok)
  /\ UNCHANGED <<tree, kind, named>>

\* fs_open in the background: virtio_9p_open_cb answers and goes on.
LopenAsync(fid) ==
  /\ Async /\ Idle /\ file[fid].used
  /\ file' = [file EXCEPT ![fid] = Closed(@)]
  /\ handles' = Close(handles, file[fid])
  /\ busy' = fid
  /\ UNCHANGED <<tree, kind, reply, named>>

OpenCb(dirFlag, fails) ==
  /\ ~Idle
  /\ LET r == Opened(file[busy], handles, dirFlag, fails)
     IN /\ file' = [file EXCEPT ![busy] = r.file]
        /\ handles' = r.handles
        /\ reply' = IF r.err THEN Failed ELSE Ok
  /\ busy' = None
  /\ UNCHANGED <<tree, kind, named>>

\* Mutant: the fid keeps the path of the directory.
CreatedFileFault(f, p, h) == [f EXCEPT !.opened = TRUE, !.dir = FALSE, !.h = h]

CreatedFile(f, p, h) == [f EXCEPT !.path = p, !.opened = TRUE, !.dir = FALSE, !.h = h]

\* fs_create: the fid moves to the file.  lost: lstat fails after
\* the open, the descriptor is closed again and the file stays.
FsCreate(fid, name, fails, lost) ==
     LET f == Closed(file[fid])
         hs == Close(handles, file[fid])
         free == {h \in DOMAIN hs : hs[h] = 0}
         p == ComposePath(f.path, name)
         exists == At(p) # 0 /\ kind[At(p)] = "file"
         inos == FreeIno
     IN IF fails \/ free = {} \/ ~(exists \/ (Vacant(p) /\ inos # {}))
        THEN /\ file' = [file EXCEPT ![fid] = f]
             /\ handles' = hs
             /\ Answer(Failed) /\ UNCHANGED <<tree, kind, named>>
        ELSE LET i == IF exists THEN At(p) ELSE Min(inos)
             IN /\ IF exists THEN UNCHANGED <<tree, kind>> ELSE HostAdds(p, i, "file")
                /\ IF lost
                   THEN /\ file' = [file EXCEPT ![fid] = f]
                        /\ handles' = hs
                        /\ Answer(Failed) /\ UNCHANGED named
                   ELSE /\ file' = [file EXCEPT ![fid] = CreatedFile(f, p, Min(free))]
                        /\ handles' = [hs EXCEPT ![Min(free)] = i]
                        /\ named' = [named EXCEPT ![fid] = i]
                        /\ Answer(Ok)

Lcreate(fid, name, fails, lost) == Known(fid) /\ FsCreate(fid, name, fails, lost)

\* fs_mkdir, fs_symlink, fs_mknod: the entry stays also when lstat fails after it.
FsMake(fid, name, k, fails, lost) ==
  /\ LET p == ComposePath(file[fid].path, name)
     IN IF fails \/ ~Vacant(p) \/ FreeIno = {}
        THEN Answer(Failed) /\ UNCHANGED <<tree, kind>>
        ELSE HostAdds(p, Min(FreeIno), k) /\ Answer(IF lost THEN Failed ELSE Ok)
  /\ UNCHANGED <<handles, file, named>>

FsMkdir(fid, name, fails, lost) == FsMake(fid, name, "dir", fails, lost)
FsSymlink(fid, name, fails, lost) == FsMake(fid, name, "link", fails, lost)
FsMknod(fid, name, fails, lost) == FsMake(fid, name, "file", fails, lost)

Mkdir(fid, name, fails, lost) == Known(fid) /\ FsMkdir(fid, name, fails, lost)
Symlink(fid, name, fails, lost) == Known(fid) /\ FsSymlink(fid, name, fails, lost)
Mknod(fid, name, fails, lost) == Known(fid) /\ FsMknod(fid, name, fails, lost)

\* fs_link: by the paths of the two fids.
FsLink(dfid, fid, name) ==
  /\ LET p == ComposePath(file[dfid].path, name)
         i == At(file[fid].path)
     IN IF i = 0 \/ IsDir(file[fid].path) \/ ~Vacant(p)
        THEN Answer(Failed) /\ UNCHANGED tree
        ELSE tree' = [tree EXCEPT ![p] = i] /\ Answer(Ok)
  /\ UNCHANGED <<kind, handles, file, named>>

Link(dfid, fid, name) == Known(dfid) /\ Known(fid) /\ FsLink(dfid, fid, name)

\* rename(2): the subtree at p moves to q, over an empty directory or a file.
HostRename(p, q) ==
  [x \in Path |->
     CASE IsPrefix(q, x) -> At(p \o SubSeq(x, Len(q) + 1, Len(x)))
       [] IsPrefix(p, x) -> 0
       [] OTHER -> tree[x]]

RenameFails(p, q) ==
  \/ At(p) = 0 \/ q \notin Path \/ IsPrefix(p, q) \/ IsPrefix(q, p)
  \/ ~IsDir(Front(q))
  \/ \E x \in Children(p) : q \o SubSeq(x, Len(p) + 1, Len(x)) \notin Path
  \/ At(q) # 0 /\ (At(q) = At(p) \/ IsDir(p) # IsDir(q) \/ Children(q) # {})

\* fs_renameat: the fids keep the paths they have.
FsRenameat(fid, name, newfid, newname) ==
  /\ LET p == ComposePath(file[fid].path, name)
         q == ComposePath(file[newfid].path, newname)
     IN IF RenameFails(p, q)
        THEN Answer(Failed) /\ UNCHANGED <<tree, named>>
        ELSE tree' = HostRename(p, q) /\ Forget(Touched(p) \cup Touched(q)) /\ Answer(Ok)
  /\ UNCHANGED <<kind, handles, file>>

Renameat(fid, name, newfid, newname) ==
  Known(fid) /\ Known(newfid) /\ FsRenameat(fid, name, newfid, newname)

\* fs_unlinkat: remove(3), also of an empty directory.
FsUnlinkat(fid, name) ==
  /\ LET p == ComposePath(file[fid].path, name)
     IN IF At(p) = 0 \/ Children(p) # {}
        THEN Answer(Failed) /\ UNCHANGED <<tree, named>>
        ELSE tree' = [tree EXCEPT ![p] = 0] /\ Forget(Touched(p)) /\ Answer(Ok)
  /\ UNCHANGED <<kind, handles, file>>

Unlinkat(fid, name) == Known(fid) /\ FsUnlinkat(fid, name)

\* The answers each function may give.  By path: fs_stat, fs_readlink and
\* fs_setattr, which makes up to four calls of the host and stops at the first
\* that fails; attributes and contents are not modelled.
FsStat(f) == IF At(f.path) = 0 THEN {Failed} ELSE {Ok}
FsReadlink(f) == IF At(f.path) # 0 /\ kind[At(f.path)] = "link" THEN {Ok} ELSE {Failed}
FsSetattr(f) == IF At(f.path) = 0 THEN {Failed} ELSE {Ok, Failed}

\* By descriptor, of the kind that is_dir tells.
FsReaddir(f) == IF f.opened /\ f.dir THEN {Ok} ELSE {Eproto}
FsRead(f) == IF f.opened /\ ~f.dir THEN {Ok, Failed} ELSE {Eproto}
FsWrite(f) == IF f.opened /\ ~f.dir THEN {Ok, Failed} ELSE {Eproto}
FsLock(f) == IF f.opened /\ ~f.dir THEN {Ok, Failed} ELSE {Eproto}
FsGetlock(f) == IF f.opened /\ ~f.dir THEN {Ok, Failed} ELSE {Eproto}

Getattr(fid) == Known(fid) /\ \E r \in FsStat(file[fid]) : JustAnswer(r)
Readlink(fid) == Known(fid) /\ \E r \in FsReadlink(file[fid]) : JustAnswer(r)
Setattr(fid) == Known(fid) /\ \E r \in FsSetattr(file[fid]) : JustAnswer(r)
Readdir(fid) == Known(fid) /\ \E r \in FsReaddir(file[fid]) : JustAnswer(r)
Read(fid) == Known(fid) /\ \E r \in FsRead(file[fid]) : JustAnswer(r)
Write(fid) == Known(fid) /\ \E r \in FsWrite(file[fid]) : JustAnswer(r)
Lock(fid) == Known(fid) /\ \E r \in FsLock(file[fid]) : JustAnswer(r)
Getlock(fid) == Known(fid) /\ \E r \in FsGetlock(file[fid]) : JustAnswer(r)

\* clunk; a fid that is not in the list is no error.
Clunk(fid) == /\ Idle
              /\ file' = [file EXCEPT ![fid] = NoFile]
              /\ handles' = Close(handles, file[fid])
              /\ named' = [named EXCEPT ![fid] = 0]
              /\ Answer(Ok) /\ UNCHANGED <<tree, kind>>

-----------------------------------------------------------------------------
Init == /\ tree = [p \in Path |-> IF p = <<>> THEN 1 ELSE 0]
        /\ kind = [i \in 1..MaxIno |-> IF i = 1 THEN "dir" ELSE "file"]
        /\ handles = [h \in 1..MaxHandle |-> 0]
        /\ file = [f \in Fid |-> NoFile]
        /\ busy = None
        /\ reply = Ok
        /\ named = [f \in Fid |-> 0]

FidRequest(f) ==
  \/ \E e \in BOOLEAN : Attach(f, e)
  \/ Clunk(f) \/ LopenAsync(f)
  \/ Getattr(f) \/ Readlink(f) \/ Setattr(f)
  \/ Readdir(f) \/ Read(f) \/ Write(f) \/ Lock(f) \/ Getlock(f)
  \/ \E d, e \in BOOLEAN : Lopen(f, d, e)

NameRequest(f, n) ==
  \/ \E e, l \in BOOLEAN : Lcreate(f, n, e, l)
  \/ \E e, l \in BOOLEAN : Mkdir(f, n, e, l) \/ Symlink(f, n, e, l) \/ Mknod(f, n, e, l)
  \/ Unlinkat(f, n)
  \/ \E g \in Fid : Link(f, g, n) \/ \E m \in Name : Renameat(f, n, g, m)

Next == \/ Statfs \/ Xattrwalk \/ Fsync \/ Version \/ Flush \/ Refused
        \/ \E f \in Fid : FidRequest(f)
        \/ \E f \in Fid, n \in Name : NameRequest(f, n)
        \/ \E f, g \in Fid, p \in Path : Walk(f, g, p)
        \/ \E d, e \in BOOLEAN : OpenCb(d, e)

Spec == Init /\ [][Next]_vars

-----------------------------------------------------------------------------
(* Properties *)

(* The host files held open are exactly those of the fids that are open,    *)
(* each of its own: no request leaks a descriptor or leaves a fid with one  *)
(* that is closed, whether it fails half way (fs_create, fs_open), gives a  *)
(* fid anew (fid_set) or drops it (fid_delete).                             *)
HandlesOwned ==
  LET open == {f \in Fid : file[f].used /\ file[f].opened}
  IN /\ {h \in 1..MaxHandle : handles[h] # 0} = {file[f].h : f \in open}
     /\ \A f, g \in open : file[f].h = file[g].h => f = g

(* A fid means one file: unless a rename or a removal has touched its path, *)
(* the path leads to the inode the guest walked to or created, and so does  *)
(* the descriptor if the fid is open (fs_walk, fs_create, fs_open).         *)
FidMeansFile ==
  \A f \in Fid : file[f].used /\ named[f] # 0 =>
    /\ At(file[f].path) = named[f]
    /\ file[f].opened => handles[file[f].h] = named[f]

(* readdir is let through only to a directory: is_dir tells what kind of    *)
(* pointer the union u of FSFile holds.                                     *)
DirHandlesAreDirs ==
  \A f \in Fid : file[f].used /\ file[f].opened /\ file[f].dir =>
    kind[handles[file[f].h]] = "dir"

-----------------------------------------------------------------------------
(* The inductive invariant.  Sound relates the paths, the kinds, the        *)
(* descriptors, the files of the fids and what the fids were given for.     *)

Kinds == {"dir", "file", "link"}
FileType == [path : Seq(Name), opened : BOOLEAN, dir : BOOLEAN, h : 0..MaxHandle, used : BOOLEAN]

LookUp(tr, p) == IF p \in Path THEN tr[p] ELSE 0

Sound(tr, kd, hs, fl, nm) ==
  /\ tr \in [Path -> 0..MaxIno] /\ kd \in [1..MaxIno -> Kinds] /\ hs \in [1..MaxHandle -> 0..MaxIno]
  /\ fl \in [Fid -> FileType] /\ nm \in [Fid -> 0..MaxIno]
  /\ \A f \in Fid : fl[f].opened =>
       /\ fl[f].used /\ fl[f].h \in 1..MaxHandle /\ hs[fl[f].h] # 0
       /\ fl[f].dir => kd[hs[fl[f].h]] = "dir"
  /\ \A f, g \in Fid : fl[f].opened /\ fl[g].opened /\ fl[f].h = fl[g].h => f = g
  /\ \A h \in 1..MaxHandle : hs[h] # 0 => \E f \in Fid : fl[f].opened /\ fl[f].h = h
  /\ \A f \in Fid : fl[f].used /\ nm[f] # 0 =>
       /\ LookUp(tr, fl[f].path) = nm[f]
       /\ fl[f].opened => hs[fl[f].h] = nm[f]

P9Inv ==
  /\ Sound(tree, kind, handles, file, named)
  /\ busy \in Fid \cup {None}
  /\ busy # None => file[busy].used /\ ~file[busy].opened

-----------------------------------------------------------------------------
(* Proofs *)

\* A set of naturals has a least element.
LEMMA Least ==
  ASSUME NEW W \in SUBSET Nat, W # {}
  PROVE  \E w \in W : \A v \in W : w <= v
<1>1. \A x, y \in Nat : x < y => <<x, y>> \in OpToRel(<, Nat)
  BY DEF OpToRel
<1>2. PICK R : IsWellFoundedOn(R, Nat) /\ \A x, y \in Nat : x < y => <<x, y>> \in R
  BY <1>1, NatLessThanWellFounded, Zenon
<1>3. \E x \in W : \A y \in W : ~ (<<y, x>> \in R)
  <2>1. IsWellFoundedOn(R, Nat) /\ W \subseteq Nat /\ W # {}
    BY <1>2
  <2>2. QED
    BY ONLY <2>1, WFMin, Zenon
<1>4. \E x \in W : \A y \in W : ~ (y < x)
  BY <1>2, <1>3, Zenon
<1>5. QED
  BY <1>4

\* fs_close and fs_delete: a fid that is closed, or given anew, gives its descriptor back.
LEMMA Released ==
  ASSUME P9Assumption, NEW tr, NEW kd, NEW hs, NEW fl, NEW nm, Sound(tr, kd, hs, fl, nm),
         NEW f \in Fid, NEW g \in FileType, ~g.opened,
         NEW n \in 0..MaxIno, g.used /\ n # 0 => LookUp(tr, g.path) = n
  PROVE  Sound(tr, kd, Close(hs, fl[f]), [fl EXCEPT ![f] = g], [nm EXCEPT ![f] = n])
<1> DEFINE hs1 == Close(hs, fl[f])
           fl1 == [fl EXCEPT ![f] = g]
           nm1 == [nm EXCEPT ![f] = n]
<1>1. fl1 \in [Fid -> FileType] /\ \A x \in Fid : fl1[x] = IF x = f THEN g ELSE fl[x]
  BY DEF Sound
<1>2. nm1 \in [Fid -> 0..MaxIno] /\ \A x \in Fid : nm1[x] = IF x = f THEN n ELSE nm[x]
  BY DEF Sound
<1>3. /\ hs1 \in [1..MaxHandle -> 0..MaxIno]
      /\ \A h \in 1..MaxHandle : hs1[h] = IF fl[f].opened /\ h = fl[f].h THEN 0 ELSE hs[h]
  <2>1. hs \in [1..MaxHandle -> 0..MaxIno] /\ fl[f].opened \in BOOLEAN /\ MaxIno \in Nat
    BY DEF Sound, FileType, P9Assumption
  <2>2. CASE fl[f].opened
    <3>1. fl[f].h \in 1..MaxHandle /\ hs1 = [hs EXCEPT ![fl[f].h] = 0]
      BY <2>2 DEF Sound, Close
    <3>2. QED
      BY <2>1, <2>2, <3>1
  <2>3. CASE ~fl[f].opened
    BY <2>1, <2>3 DEF Close
  <2>4. QED
    BY <2>2, <2>3
<1> HIDE DEF hs1, fl1, nm1
<1>4. \A x, y \in Fid : fl1[x].opened /\ fl1[y].opened /\ fl1[x].h = fl1[y].h => x = y
  BY <1>1 DEF Sound
<1>5. ASSUME NEW x \in Fid, fl1[x].opened
      PROVE  /\ x # f /\ fl[x].opened /\ fl1[x] = fl[x] /\ nm1[x] = nm[x]
             /\ fl[x].h \in 1..MaxHandle /\ hs1[fl[x].h] = hs[fl[x].h]
  <2>1. x # f /\ fl1[x] = fl[x] /\ nm1[x] = nm[x]
    BY <1>1, <1>2, <1>5
  <2>2. fl[x].opened /\ fl[x].h \in 1..MaxHandle
    BY <1>5, <2>1 DEF Sound
  <2>3. ~(fl[f].opened /\ fl[x].h = fl[f].h)
    BY <2>1, <2>2 DEF Sound
  <2>4. QED
    BY <1>3, <2>1, <2>2, <2>3
<1>6. \A x \in Fid : fl1[x].opened =>
         /\ fl1[x].used /\ fl1[x].h \in 1..MaxHandle /\ hs1[fl1[x].h] # 0
         /\ fl1[x].dir => kd[hs1[fl1[x].h]] = "dir"
  BY <1>5 DEF Sound
<1>7. ASSUME NEW h \in 1..MaxHandle, hs1[h] # 0
      PROVE  \E x \in Fid : fl1[x].opened /\ fl1[x].h = h
  <2>1. hs[h] # 0 /\ ~(fl[f].opened /\ h = fl[f].h)
    BY <1>3, <1>7
  <2>2. PICK x \in Fid : fl[x].opened /\ fl[x].h = h
    BY <2>1 DEF Sound
  <2>3. x # f
    BY <2>1, <2>2
  <2>4. QED
    BY <1>1, <2>2, <2>3
<1>8. \A x \in Fid : fl1[x].used /\ nm1[x] # 0 =>
         /\ LookUp(tr, fl1[x].path) = nm1[x]
         /\ fl1[x].opened => hs1[fl1[x].h] = nm1[x]
  <2> SUFFICES ASSUME NEW x \in Fid, fl1[x].used, nm1[x] # 0
               PROVE  /\ LookUp(tr, fl1[x].path) = nm1[x]
                      /\ fl1[x].opened => hs1[fl1[x].h] = nm1[x]
    OBVIOUS
  <2>1. LookUp(tr, fl1[x].path) = nm1[x]
    <3>1. CASE x = f
      BY <1>1, <1>2, <3>1
    <3>2. CASE x # f
      BY <1>1, <1>2, <3>2 DEF Sound
    <3>3. QED
      BY <3>1, <3>2
  <2>2. ASSUME fl1[x].opened PROVE hs1[fl1[x].h] = nm1[x]
    <3>1. /\ fl[x].opened /\ fl1[x] = fl[x] /\ nm1[x] = nm[x] /\ hs1[fl[x].h] = hs[fl[x].h]
      BY <1>5, <2>2
    <3>2. QED
      BY <3>1 DEF Sound
  <2>3. QED
    BY <2>1, <2>2
<1>9. tr \in [Path -> 0..MaxIno] /\ kd \in [1..MaxIno -> Kinds]
  BY DEF Sound
<1>10. Sound(tr, kd, hs1, fl1, nm1)
  BY <1>1, <1>2, <1>3, <1>4, <1>6, <1>7, <1>8, <1>9 DEF Sound
<1>11. QED
  BY <1>10 DEF hs1, fl1, nm1

\* fs_open and fs_create: a fid that is not open takes a free descriptor.
LEMMA Taken ==
  ASSUME P9Assumption, NEW tr, NEW kd, NEW hs, NEW fl, NEW nm, Sound(tr, kd, hs, fl, nm),
         NEW f \in Fid, ~fl[f].opened, NEW h \in 1..MaxHandle, hs[h] = 0, NEW i \in 1..MaxIno,
         NEW g \in FileType, g.opened, g.used, g.h = h, g.dir => kd[i] = "dir",
         NEW n \in 0..MaxIno, n # 0 => LookUp(tr, g.path) = n /\ i = n
  PROVE  Sound(tr, kd, [hs EXCEPT ![h] = i], [fl EXCEPT ![f] = g], [nm EXCEPT ![f] = n])
<1> DEFINE hs1 == [hs EXCEPT ![h] = i]
           fl1 == [fl EXCEPT ![f] = g]
           nm1 == [nm EXCEPT ![f] = n]
<1>1. fl1 \in [Fid -> FileType] /\ \A x \in Fid : fl1[x] = IF x = f THEN g ELSE fl[x]
  BY DEF Sound
<1>2. nm1 \in [Fid -> 0..MaxIno] /\ \A x \in Fid : nm1[x] = IF x = f THEN n ELSE nm[x]
  BY DEF Sound
<1>3. hs1 \in [1..MaxHandle -> 0..MaxIno] /\ \A k \in 1..MaxHandle : hs1[k] = IF k = h THEN i ELSE hs[k]
  BY DEF Sound
<1>0. i # 0
  OBVIOUS
<1> HIDE DEF hs1, fl1, nm1
<1>5. ASSUME NEW x \in Fid, fl1[x].opened, x # f
      PROVE  /\ fl[x].opened /\ fl1[x] = fl[x] /\ nm1[x] = nm[x]
             /\ fl[x].h \in 1..MaxHandle /\ fl[x].h # h /\ hs1[fl[x].h] = hs[fl[x].h]
  <2>1. fl1[x] = fl[x] /\ nm1[x] = nm[x]
    BY <1>1, <1>2, <1>5
  <2>2. fl[x].opened /\ fl[x].h \in 1..MaxHandle /\ hs[fl[x].h] # 0
    BY <1>5, <2>1 DEF Sound
  <2>3. QED
    BY <1>3, <2>1, <2>2
<1>4. \A x, y \in Fid : fl1[x].opened /\ fl1[y].opened /\ fl1[x].h = fl1[y].h => x = y
  <2> SUFFICES ASSUME NEW x \in Fid, NEW y \in Fid, fl1[x].opened, fl1[y].opened, fl1[x].h = fl1[y].h
               PROVE  x = y
    OBVIOUS
  <2>1. CASE x = f /\ y # f
    BY <1>1, <1>5, <2>1
  <2>2. CASE x # f /\ y = f
    BY <1>1, <1>5, <2>2
  <2>3. CASE x # f /\ y # f
    <3>1. fl[x].opened /\ fl[y].opened /\ fl[x].h = fl[y].h
      BY <1>5, <2>3
    <3>2. QED
      BY <3>1 DEF Sound
  <2>4. QED
    BY <2>1, <2>2, <2>3
<1>6. \A x \in Fid : fl1[x].opened =>
         /\ fl1[x].used /\ fl1[x].h \in 1..MaxHandle /\ hs1[fl1[x].h] # 0
         /\ fl1[x].dir => kd[hs1[fl1[x].h]] = "dir"
  <2> SUFFICES ASSUME NEW x \in Fid, fl1[x].opened
               PROVE  /\ fl1[x].used /\ fl1[x].h \in 1..MaxHandle /\ hs1[fl1[x].h] # 0
                      /\ fl1[x].dir => kd[hs1[fl1[x].h]] = "dir"
    OBVIOUS
  <2>1. CASE x = f
    <3>1. fl1[x] = g /\ hs1[g.h] = i
      BY <1>1, <1>3, <2>1
    <3>2. QED
      BY <1>0, <3>1
  <2>2. CASE x # f
    <3>1. fl[x].opened /\ fl1[x] = fl[x] /\ hs1[fl[x].h] = hs[fl[x].h]
      BY <1>5, <2>2
    <3>2. QED
      BY <3>1 DEF Sound
  <2>3. QED
    BY <2>1, <2>2
<1>7. ASSUME NEW k \in 1..MaxHandle, hs1[k] # 0
      PROVE  \E x \in Fid : fl1[x].opened /\ fl1[x].h = k
  <2>1. CASE k = h
    <3>1. fl1[f] = g
      BY <1>1
    <3>2. QED
      BY <2>1, <3>1
  <2>2. CASE k # h
    <3>1. hs[k] # 0
      BY <1>3, <1>7, <2>2
    <3>2. PICK x \in Fid : fl[x].opened /\ fl[x].h = k
      BY <3>1 DEF Sound
    <3>3. x # f /\ fl1[x] = fl[x]
      BY <1>1, <3>2
    <3>4. QED
      BY <3>2, <3>3
  <2>3. QED
    BY <2>1, <2>2
<1>8. \A x \in Fid : fl1[x].used /\ nm1[x] # 0 =>
         /\ LookUp(tr, fl1[x].path) = nm1[x]
         /\ fl1[x].opened => hs1[fl1[x].h] = nm1[x]
  <2> SUFFICES ASSUME NEW x \in Fid, fl1[x].used, nm1[x] # 0
               PROVE  /\ LookUp(tr, fl1[x].path) = nm1[x]
                      /\ fl1[x].opened => hs1[fl1[x].h] = nm1[x]
    OBVIOUS
  <2>1. CASE x = f
    <3>1. fl1[x] = g /\ nm1[x] = n /\ hs1[h] = i
      BY <1>1, <1>2, <1>3, <2>1
    <3>2. QED
      BY <3>1
  <2>2. CASE x # f
    <3>1. fl1[x] = fl[x] /\ nm1[x] = nm[x]
      BY <1>1, <1>2, <2>2
    <3>2. fl1[x].opened => hs1[fl[x].h] = hs[fl[x].h]
      BY <1>5, <2>2
    <3>3. QED
      BY <3>1, <3>2 DEF Sound
  <2>3. QED
    BY <2>1, <2>2
<1>9. tr \in [Path -> 0..MaxIno] /\ kd \in [1..MaxIno -> Kinds]
  BY DEF Sound
<1>10. Sound(tr, kd, hs1, fl1, nm1)
  BY <1>1, <1>2, <1>3, <1>4, <1>6, <1>7, <1>8, <1>9 DEF Sound
<1>11. QED
  BY <1>10 DEF hs1, fl1, nm1

\* mkdir, symlink, mknod, link and create: an entry appears where there was none.  A new
\* inode is one that no path and no descriptor has.
LEMMA Grown ==
  ASSUME P9Assumption, NEW tr, NEW kd, NEW hs, NEW fl, NEW nm, Sound(tr, kd, hs, fl, nm),
         NEW p \in Path, tr[p] = 0, NEW i \in 1..MaxIno, NEW k \in Kinds,
         kd[i] = k \/ \A h \in 1..MaxHandle : hs[h] # i
  PROVE  Sound([tr EXCEPT ![p] = i], [kd EXCEPT ![i] = k], hs, fl, nm)
<1> DEFINE tr1 == [tr EXCEPT ![p] = i]
           kd1 == [kd EXCEPT ![i] = k]
<1>1. tr1 \in [Path -> 0..MaxIno] /\ \A x \in Path : x # p => tr1[x] = tr[x]
  BY DEF Sound
<1>2. kd1 \in [1..MaxIno -> Kinds] /\ \A j \in 1..MaxIno : kd1[j] = IF j = i THEN k ELSE kd[j]
  BY DEF Sound
<1> HIDE DEF tr1, kd1
<1>3. \A f \in Fid : fl[f].opened =>
         /\ fl[f].used /\ fl[f].h \in 1..MaxHandle /\ hs[fl[f].h] # 0
         /\ fl[f].dir => kd1[hs[fl[f].h]] = "dir"
  <2> SUFFICES ASSUME NEW f \in Fid, fl[f].opened
               PROVE  /\ fl[f].used /\ fl[f].h \in 1..MaxHandle /\ hs[fl[f].h] # 0
                      /\ fl[f].dir => kd1[hs[fl[f].h]] = "dir"
    OBVIOUS
  <2>1. /\ fl[f].used /\ fl[f].h \in 1..MaxHandle /\ hs[fl[f].h] # 0
        /\ fl[f].dir => kd[hs[fl[f].h]] = "dir"
    BY DEF Sound
  <2>2. hs[fl[f].h] \in 1..MaxIno
    BY <2>1 DEF Sound
  <2>3. QED
    BY <1>2, <2>1, <2>2
<1>4. \A x : LookUp(tr, x) # 0 => LookUp(tr1, x) = LookUp(tr, x)
  BY <1>1 DEF LookUp
<1>5. \A f \in Fid : fl[f].used /\ nm[f] # 0 =>
         /\ LookUp(tr1, fl[f].path) = nm[f]
         /\ fl[f].opened => hs[fl[f].h] = nm[f]
  BY <1>4 DEF Sound
<1>6. Sound(tr1, kd1, hs, fl, nm)
  BY <1>1, <1>2, <1>3, <1>5 DEF Sound
<1>7. QED
  BY <1>6 DEF tr1, kd1

\* rename and remove: what was touched means nothing, the other paths lead where they led.
LEMMA Rearranged ==
  ASSUME P9Assumption, NEW tr, NEW kd, NEW hs, NEW fl, NEW nm, Sound(tr, kd, hs, fl, nm),
         NEW tr1 \in [Path -> 0..MaxIno], NEW fs \in SUBSET Fid,
         \A f \in Fid \ fs : fl[f].used => LookUp(tr1, fl[f].path) = LookUp(tr, fl[f].path)
  PROVE  Sound(tr1, kd, hs, fl, [f \in Fid |-> IF f \in fs THEN 0 ELSE nm[f]])
<1> DEFINE nm1 == [f \in Fid |-> IF f \in fs THEN 0 ELSE nm[f]]
<1>1. nm1 \in [Fid -> 0..MaxIno] /\ \A f \in Fid : nm1[f] # 0 => f \notin fs /\ nm1[f] = nm[f]
  BY DEF Sound, P9Assumption
<1> HIDE DEF nm1
<1>2. \A f \in Fid : fl[f].used /\ nm1[f] # 0 =>
         /\ LookUp(tr1, fl[f].path) = nm1[f]
         /\ fl[f].opened => hs[fl[f].h] = nm1[f]
  BY <1>1 DEF Sound
<1>3. Sound(tr1, kd, hs, fl, nm1)
  BY <1>1, <1>2 DEF Sound
<1>4. QED
  BY <1>3 DEF nm1

\* A path is a sequence of names, and a prefix of itself.
LEMMA PathIsSeq == ASSUME P9Assumption PROVE \A p \in Path : p \in Seq(Name) /\ IsPrefix(p, p)
<1> TAKE p \in Path
<1>1. PICK n \in 0..Depth : p \in [1..n -> Name]
  BY DEF Path
<1>2. n \in Nat /\ p \in Seq(Name)
  BY <1>1 DEF P9Assumption
<1>3. QED
  BY <1>2 DEF IsPrefix

\* What a path leads to, in the words of the invariant.
LEMMA AtIs ==
  ASSUME P9Assumption, P9Inv
  PROVE  \A p : /\ At(p) = LookUp(tree, p) /\ At(p) \in 0..MaxIno
                /\ At(p) # 0 => p \in Path /\ At(p) = tree[p] /\ At(p) \in 1..MaxIno
<1>1. tree \in [Path -> 0..MaxIno] /\ MaxIno \in Nat
  BY DEF P9Inv, Sound, P9Assumption
<1>2. QED
  BY <1>1 DEF At, LookUp

\* The least of the free descriptors and inodes is one of them.
LEMMA LeastIsMember == ASSUME NEW W \in SUBSET Nat, W # {} PROVE Min(W) \in W
BY Least DEF Min

\* Closing a file and giving its fid the same path keeps what it was named for.
LEMMA ClosedFid ==
  ASSUME P9Assumption, P9Inv, NEW f \in Fid
  PROVE  /\ Closed(file[f]) \in FileType /\ ~Closed(file[f]).opened
         /\ Closed(file[f]).used = file[f].used /\ Closed(file[f]).path = file[f].path
         /\ Sound(tree, kind, Close(handles, file[f]), [file EXCEPT ![f] = Closed(file[f])], named)
<1> DEFINE g == Closed(file[f])
<1>0. Sound(tree, kind, handles, file, named) /\ file[f] \in FileType /\ 0 \in 0..MaxHandle
      /\ named \in [Fid -> 0..MaxIno]
  BY DEF P9Inv, Sound, P9Assumption
<1>1. /\ g \in FileType /\ ~g.opened /\ g.used = file[f].used /\ g.path = file[f].path
  BY <1>0 DEF Closed, FileType
<1> HIDE DEF g
<1>2. named[f] \in 0..MaxIno /\ (g.used /\ named[f] # 0 => LookUp(tree, g.path) = named[f])
  BY <1>0, <1>1 DEF Sound
<1>3. [named EXCEPT ![f] = named[f]] = named
  BY <1>0
<1>4. Sound(tree, kind, Close(handles, file[f]), [file EXCEPT ![f] = g], [named EXCEPT ![f] = named[f]])
  BY <1>0, <1>1, <1>2, Released
<1>5. QED
  BY <1>1, <1>3, <1>4 DEF g

\* An FSFile of fid_create is one of the type, and closed.
LEMMA CreatedFid ==
  ASSUME P9Assumption, NEW p \in Seq(Name)
  PROVE  /\ FidCreate(p) \in FileType /\ ~FidCreate(p).opened /\ FidCreate(p).path = p
<1>1. 0 \in 0..MaxHandle
  BY DEF P9Assumption
<1>2. QED
  BY <1>1 DEF FidCreate, NoFile, FileType

\* fs_close keeps the path and the fid.
LEMMA ClosedFile ==
  ASSUME P9Assumption, NEW g \in FileType
  PROVE  /\ Closed(g) \in FileType /\ ~Closed(g).opened
         /\ Closed(g).used = g.used /\ Closed(g).path = g.path
<1>1. 0 \in 0..MaxHandle
  BY DEF P9Assumption
<1>2. QED
  BY <1>1 DEF Closed, FileType

\* attach, walk and clunk: a fid is given anew or dropped (fid_set, fid_delete).
LEMMA Given ==
  ASSUME P9Assumption, P9Inv, NEW f \in Fid, NEW g \in FileType, ~g.opened,
         NEW n \in 0..MaxIno, g.used /\ n # 0 => LookUp(tree, g.path) = n,
         Idle, UNCHANGED <<tree, kind, busy>>,
         file' = [file EXCEPT ![f] = g], handles' = Close(handles, file[f]), named' = [named EXCEPT ![f] = n]
  PROVE  P9Inv'
<1>1. Sound(tree, kind, handles, file, named)
  BY DEF P9Inv
<1>2. Sound(tree, kind, handles', file', named')
  BY <1>1, Released
<1>3. tree' = tree /\ kind' = kind /\ busy' = None
  BY DEF Idle
<1>4. QED
  BY <1>2, <1>3 DEF P9Inv

LEMMA AttachStep == ASSUME P9Assumption, P9Inv, NEW f \in Fid, NEW fails \in BOOLEAN, Attach(f, fails) PROVE P9Inv'
<1>1. CASE fails
  BY <1>1 DEF Attach, JustAnswer, Answer, host, P9Inv
<1>2. CASE ~fails
  <2>1. /\ FsAttach \in FileType /\ ~FsAttach.opened /\ FsAttach.path = <<>>
    <3>1. <<>> \in Seq(Name)
      OBVIOUS
    <3>2. QED
      BY <3>1, CreatedFid DEF FsAttach
  <2>2. At(<<>>) \in 0..MaxIno /\ At(<<>>) = LookUp(tree, <<>>)
    BY AtIs
  <2>3. /\ Idle /\ UNCHANGED <<tree, kind, busy>>
        /\ file' = [file EXCEPT ![f] = FsAttach] /\ handles' = Close(handles, file[f])
        /\ named' = [named EXCEPT ![f] = At(<<>>)]
    BY <1>2 DEF Attach, FidSet, DeletedBySet, Answer
  <2>4. QED
    BY <2>1, <2>2, <2>3, Given
<1>3. QED
  BY <1>1, <1>2

LEMMA ClunkStep == ASSUME P9Assumption, P9Inv, NEW f \in Fid, Clunk(f) PROVE P9Inv'
<1>1. NoFile \in FileType /\ ~NoFile.opened /\ ~NoFile.used /\ 0 \in 0..MaxIno
  BY DEF NoFile, FileType, P9Assumption
<1>2. /\ Idle /\ UNCHANGED <<tree, kind, busy>>
      /\ file' = [file EXCEPT ![f] = NoFile] /\ handles' = Close(handles, file[f])
      /\ named' = [named EXCEPT ![f] = 0]
  BY DEF Clunk, Answer
<1>3. QED
  BY <1>1, <1>2, Given

\* fs_walk goes on from the path of the fid, and without names stays there.
LEMMA WalkedPath ==
  ASSUME NEW path \in Seq(Name), NEW names \in Seq(Name)
  PROVE  Walked(path, names) \in Seq(Name) /\ (names = <<>> => Walked(path, names) = path)
<1> DEFINE full(n) == path \o SubSeq(names, 1, n)
           found == {n \in 0..Len(names) : \A k \in 1..n : At(full(k)) # 0}
           m == Max(found)
<1>1. Walked(path, names) = full(m)
  BY DEF Walked
<1>2. m \in found
  <2> HIDE DEF full
  <2>0. Len(names) \in Nat
    OBVIOUS
  <2>1. 0 \in found
    BY <2>0
  <2>2. found \in SUBSET (0..Len(names))
    OBVIOUS
  <2> HIDE DEF found
  <2> DEFINE left == {Len(names) - n : n \in found}
  <2>3. left \in SUBSET Nat /\ left # {}
    BY <2>0, <2>1, <2>2
  <2>4. PICK w \in left : \A v \in left : w <= v
    BY <2>3, Least
  <2>5. PICK x \in found : w = Len(names) - x
    BY <2>4
  <2>6. ASSUME NEW y \in found PROVE x >= y
    <3>1. w <= Len(names) - y
      BY <2>4
    <3>2. x \in Int /\ y \in Int
      BY <2>2
    <3>3. QED
      BY <2>0, <2>5, <3>1, <3>2
  <2>7. \E z \in found : \A y \in found : z >= y
    BY <2>6
  <2>8. QED
    BY <2>7 DEF Max
<1>3. m \in 0..Len(names)
  BY <1>2
<1> HIDE DEF m, found
<1>4. SubSeq(names, 1, m) \in Seq(Name)
  BY <1>3
<1>5. Walked(path, names) \in Seq(Name)
  BY <1>1, <1>4
<1>6. ASSUME names = <<>> PROVE Walked(path, names) = path
  <2>1. m = 0 /\ SubSeq(names, 1, m) = <<>>
    BY <1>3, <1>6
  <2>2. path \o <<>> = path
    OBVIOUS
  <2>3. QED
    BY <1>1, <2>1, <2>2
<1>7. QED
  BY <1>5, <1>6

LEMMA WalkStep ==
  ASSUME P9Assumption, P9Inv, NEW f \in Fid, NEW g \in Fid, NEW names \in Path, Walk(f, g, names)
  PROVE  P9Inv'
<1> DEFINE p == Walked(file[f].path, names)
           known == IF names = <<>> \/ named[f] = 0 THEN named[f] ELSE At(p)
           new == FidCreate(p)
<1>0. /\ file[f] \in FileType /\ file[f].used /\ named[f] \in 0..MaxIno
      /\ named[f] # 0 => LookUp(tree, file[f].path) = named[f]
  BY DEF Walk, Known, P9Inv, Sound
<1>1. p \in Seq(Name) /\ (names = <<>> => p = file[f].path)
  <2>1. file[f].path \in Seq(Name) /\ names \in Seq(Name)
    BY <1>0, PathIsSeq DEF FileType
  <2>2. QED
    BY <2>1, WalkedPath
<1>2. /\ Idle /\ UNCHANGED <<tree, kind, busy>>
      /\ file' = [file EXCEPT ![g] = new] /\ handles' = Close(handles, file[g])
      /\ named' = [named EXCEPT ![g] = known]
  BY DEF Walk, Known, FidSet, DeletedBySet, Answer
<1> HIDE DEF p
<1>3. new \in FileType /\ ~new.opened /\ new.path = p
  BY <1>1, CreatedFid
<1>4. known \in 0..MaxIno /\ (known # 0 => LookUp(tree, p) = known)
  BY <1>0, <1>1, AtIs
<1> HIDE DEF new, known
<1>5. QED
  BY <1>2, <1>3, <1>4, Given

\* fs_open of a fid that is closed: it takes the least free descriptor, or stays closed.
LEMMA OpenedSound ==
  ASSUME P9Assumption, P9Inv, NEW hs, NEW fl, Sound(tree, kind, hs, fl, named),
         NEW f \in Fid, ~fl[f].opened, fl[f].used, NEW dirFlag \in BOOLEAN, NEW fails \in BOOLEAN,
         NEW r, r = Opened(fl[f], hs, dirFlag, fails)
  PROVE  Sound(tree, kind, r.handles, [fl EXCEPT ![f] = r.file], named)
<1> DEFINE free == {h \in DOMAIN hs : hs[h] = 0}
           h == Min(free)
           ino == At(fl[f].path)
           refused == \/ fails \/ ino = 0 \/ free = {}
                      \/ kind[ino] = "link" \/ (dirFlag /\ kind[ino] # "dir")
           g == [fl[f] EXCEPT !.opened = TRUE, !.dir = dirFlag, !.h = h]
<1>0. /\ fl[f] \in FileType /\ DOMAIN hs = 1..MaxHandle /\ named[f] \in 0..MaxIno
      /\ [named EXCEPT ![f] = named[f]] = named
      /\ named[f] # 0 => LookUp(tree, fl[f].path) = named[f]
  BY DEF Sound
<1>1. CASE refused
  <2>1. r = [err |-> TRUE, file |-> Closed(fl[f]), handles |-> hs]
    BY <1>1 DEF Opened
  <2>2. /\ Closed(fl[f]) \in FileType /\ ~Closed(fl[f]).opened
        /\ Closed(fl[f]).path = fl[f].path
    BY <1>0, ClosedFile
  <2>3. Close(hs, fl[f]) = hs
    BY DEF Close
  <2>4. Sound(tree, kind, Close(hs, fl[f]), [fl EXCEPT ![f] = Closed(fl[f])], [named EXCEPT ![f] = named[f]])
    BY <1>0, <2>2, Released
  <2>5. QED
    BY <1>0, <2>1, <2>3, <2>4
<1>2. CASE ~refused
  <2>1. r = [err |-> FALSE, handles |-> [hs EXCEPT ![h] = ino], file |-> g]
    BY <1>2 DEF Opened
  <2>2. h \in 1..MaxHandle /\ hs[h] = 0
    <3>1. free \in SUBSET Nat /\ free # {}
      BY <1>0, <1>2
    <3>2. h \in free
      BY <3>1, LeastIsMember
    <3>3. QED
      BY <1>0, <3>2
  <2>3. ino \in 1..MaxIno /\ ino = LookUp(tree, fl[f].path) /\ (dirFlag => kind[ino] = "dir")
    BY <1>2, AtIs
  <2> HIDE DEF h, ino, free
  <2>4. g \in FileType /\ g.opened /\ g.used /\ g.h = h /\ g.dir = dirFlag /\ g.path = fl[f].path
    <3>1. h \in 0..MaxHandle
      BY <2>2
    <3>2. QED
      BY <1>0, <3>1 DEF FileType
  <2> HIDE DEF g
  <2>5. Sound(tree, kind, [hs EXCEPT ![h] = ino], [fl EXCEPT ![f] = g], [named EXCEPT ![f] = named[f]])
    <3>1. /\ g.dir => kind[ino] = "dir"
          /\ named[f] # 0 => LookUp(tree, g.path) = named[f] /\ ino = named[f]
      BY <1>0, <2>3, <2>4
    <3>2. named[f] \in 0..MaxIno
      BY <1>0
    <3>3. QED
      BY <2>2, <2>3, <2>4, <3>1, <3>2, Taken
  <2>6. QED
    BY <1>0, <2>1, <2>5
<1>3. QED
  BY <1>1, <1>2

LEMMA LopenStep ==
  ASSUME P9Assumption, P9Inv, NEW f \in Fid, NEW dirFlag \in BOOLEAN, NEW fails \in BOOLEAN, Lopen(f, dirFlag, fails)
  PROVE  P9Inv'
<1> DEFINE hs == Close(handles, file[f])
           fl == [file EXCEPT ![f] = Closed(file[f])]
           r == Opened(Closed(file[f]), hs, dirFlag, fails)
<1>1. /\ file[f].used /\ busy = None /\ busy' = busy /\ UNCHANGED <<tree, kind, named>>
      /\ file' = [file EXCEPT ![f] = r.file] /\ handles' = r.handles
  BY DEF Lopen, Known, Idle, Answer
<1>2. /\ Sound(tree, kind, hs, fl, named) /\ ~Closed(file[f]).opened
      /\ Closed(file[f]).used = file[f].used
  BY ClosedFid
<1>3. file \in [Fid -> FileType]
  BY DEF P9Inv, Sound
<1>4. fl[f] = Closed(file[f]) /\ \A x : [fl EXCEPT ![f] = x] = [file EXCEPT ![f] = x]
  BY <1>3
<1> HIDE DEF hs, fl
<1>5. Sound(tree, kind, r.handles, [fl EXCEPT ![f] = r.file], named)
  BY <1>1, <1>2, <1>4, OpenedSound
<1> HIDE DEF r
<1>6. Sound(tree', kind', handles', file', named')
  BY <1>1, <1>4, <1>5
<1>7. QED
  BY <1>1, <1>6 DEF P9Inv

\* While fs_open runs in the background the fid is closed and no request is taken.
LEMMA LopenAsyncStep == ASSUME P9Assumption, P9Inv, NEW f \in Fid, LopenAsync(f) PROVE P9Inv'
<1>1. /\ file[f].used /\ busy' = f /\ UNCHANGED <<tree, kind, named>>
      /\ file' = [file EXCEPT ![f] = Closed(file[f])] /\ handles' = Close(handles, file[f])
  BY DEF LopenAsync
<1>2. /\ Sound(tree, kind, handles', file', named) /\ ~Closed(file[f]).opened
      /\ Closed(file[f]).used = file[f].used
  BY <1>1, ClosedFid
<1>3. file'[f] = Closed(file[f])
  BY <1>1 DEF P9Inv, Sound
<1>4. QED
  BY <1>1, <1>2, <1>3 DEF P9Inv

LEMMA OpenCbStep ==
  ASSUME P9Assumption, P9Inv, NEW dirFlag \in BOOLEAN, NEW fails \in BOOLEAN, OpenCb(dirFlag, fails)
  PROVE  P9Inv'
<1> DEFINE r == Opened(file[busy], handles, dirFlag, fails)
<1>1. /\ busy # None /\ busy' = None /\ UNCHANGED <<tree, kind, named>>
      /\ file' = [file EXCEPT ![busy] = r.file] /\ handles' = r.handles
  BY DEF OpenCb, Idle
<1>2. busy \in Fid /\ file[busy].used /\ ~file[busy].opened /\ Sound(tree, kind, handles, file, named)
  BY <1>1 DEF P9Inv
<1>3. Sound(tree, kind, r.handles, [file EXCEPT ![busy] = r.file], named)
  BY <1>2, OpenedSound
<1>4. QED
  BY <1>1, <1>3 DEF P9Inv

\* fs_create: the entry appears first, then the fid takes a descriptor and the new path,
\* or keeps its own and stays closed.
LEMMA LcreateStep ==
  ASSUME P9Assumption, P9Inv, NEW f \in Fid, NEW name \in Name,
         NEW fails \in BOOLEAN, NEW lost \in BOOLEAN, Lcreate(f, name, fails, lost)
  PROVE  P9Inv'
<1> DEFINE g == Closed(file[f])
           hs == Close(handles, file[f])
           fl == [file EXCEPT ![f] = g]
           free == {h \in DOMAIN hs : hs[h] = 0}
           h == Min(free)
           p == ComposePath(g.path, name)
           exists == At(p) # 0 /\ kind[At(p)] = "file"
           refused == fails \/ free = {} \/ ~(exists \/ (Vacant(p) /\ FreeIno # {}))
           i == IF exists THEN At(p) ELSE Min(FreeIno)
           made == CreatedFile(g, p, h)
<1>1. /\ g \in FileType /\ ~g.opened /\ g.used /\ Sound(tree, kind, hs, fl, named)
  BY ClosedFid DEF Lcreate, Known
<1>2. busy = None /\ busy' = None
  BY DEF Lcreate, Known, Idle, FsCreate, Answer
<1>3. refused => file' = fl /\ handles' = hs /\ UNCHANGED <<tree, kind, named>>
  BY DEF Lcreate, FsCreate
<1>4. ~refused => IF exists THEN UNCHANGED <<tree, kind>> ELSE HostAdds(p, i, "file")
  BY DEF Lcreate, FsCreate
<1>5. ~refused /\ lost => file' = fl /\ handles' = hs /\ UNCHANGED named
  BY DEF Lcreate, FsCreate
<1>6. ~refused /\ ~lost => /\ file' = [file EXCEPT ![f] = made] /\ handles' = [hs EXCEPT ![h] = i]
                           /\ named' = [named EXCEPT ![f] = i]
  BY DEF Lcreate, FsCreate
<1>7. CASE refused
  BY <1>1, <1>2, <1>3, <1>7 DEF P9Inv
<1>8. CASE ~refused
  <2>0. /\ MaxIno \in Nat /\ tree \in [Path -> 0..MaxIno] /\ kind \in [1..MaxIno -> Kinds]
        /\ handles \in [1..MaxHandle -> 0..MaxIno] /\ hs \in [1..MaxHandle -> 0..MaxIno]
        /\ file \in [Fid -> FileType] /\ named \in [Fid -> 0..MaxIno]
    BY <1>1 DEF Sound, P9Assumption, P9Inv
  <2>1. h \in 1..MaxHandle /\ hs[h] = 0
    <3>1. free \in SUBSET Nat /\ free # {}
      BY <1>8, <2>0
    <3>2. h \in free
      BY <3>1, LeastIsMember
    <3>3. QED
      BY <2>0, <3>2
  <2>2. ASSUME ~exists
        PROVE  /\ p \in Path /\ tree[p] = 0 /\ i \in 1..MaxIno
               /\ \A x \in 1..MaxHandle : hs[x] # i
    <3>1. p \in Path /\ tree[p] = 0 /\ FreeIno # {}
      BY <1>8, <2>2 DEF Vacant
    <3>2. FreeIno \in SUBSET Nat
      BY <2>0 DEF FreeIno
    <3>3. i \in FreeIno
      BY <2>2, <3>1, <3>2, LeastIsMember
    <3>4. i \in 2..MaxIno /\ i \notin Range(handles)
      BY <3>3 DEF FreeIno
    <3> HIDE DEF i
    <3>5. i \in 1..MaxIno /\ i # 0
      BY <2>0, <3>4
    <3>6. \A x \in 1..MaxHandle : hs[x] \in {0, handles[x]}
      BY <2>0 DEF Close
    <3>7. \A x \in 1..MaxHandle : handles[x] # i
      BY <2>0, <3>4 DEF Range
    <3>8. QED
      BY <3>1, <3>5, <3>6, <3>7
  <2>3. ASSUME exists PROVE i \in 1..MaxIno /\ i = LookUp(tree, p)
    BY <2>3, AtIs
  <2> HIDE DEF hs, fl, h, i, exists, refused, free, g, p
  <2>4. Sound(tree', kind', hs, fl, named)
    <3>1. CASE exists
      BY <1>1, <1>4, <1>8, <3>1
    <3>2. CASE ~exists
      <4>1. "file" \in Kinds
        BY DEF Kinds
      <4>2. Sound([tree EXCEPT ![p] = i], [kind EXCEPT ![i] = "file"], hs, fl, named)
        BY <1>1, <2>2, <3>2, <4>1, Grown
      <4>3. QED
        BY <1>4, <1>8, <3>2, <4>2 DEF HostAdds
    <3>3. QED
      BY <3>1, <3>2
  <2>5. i \in 1..MaxIno /\ LookUp(tree', p) = i
    <3>1. CASE exists
      BY <1>4, <1>8, <2>3, <3>1
    <3>2. CASE ~exists
      BY <1>4, <1>8, <2>0, <2>2, <3>2 DEF HostAdds, LookUp
    <3>3. QED
      BY <3>1, <3>2
  <2>6. CASE lost
    <3>1. Sound(tree', kind', handles', file', named')
      BY <1>5, <1>8, <2>4, <2>6
    <3>2. QED
      BY <1>2, <3>1 DEF P9Inv
  <2>7. CASE ~lost
    <3>1. fl[f] = g /\ [fl EXCEPT ![f] = made] = [file EXCEPT ![f] = made]
      <4> HIDE DEF made
      <4>1. QED
        BY <2>0 DEF fl
    <3>2. p \in Seq(Name)
      BY <1>1 DEF p, ComposePath, FileType
    <3>3. /\ made \in FileType /\ made.opened /\ made.used /\ made.h = h
          /\ ~made.dir /\ made.path = p
      <4>1. h \in 0..MaxHandle
        BY <2>1
      <4>2. QED
        BY <1>1, <3>2, <4>1 DEF CreatedFile, FileType
    <3> HIDE DEF made
    <3>4. i \in 0..MaxIno /\ (made.dir => kind'[i] = "dir")
          /\ (i # 0 => LookUp(tree', made.path) = i /\ i = i)
      BY <2>5, <3>3
    <3>5. ~fl[f].opened
      BY <1>1, <3>1
    <3>6. Sound(tree', kind', [hs EXCEPT ![h] = i], [fl EXCEPT ![f] = made], [named EXCEPT ![f] = i])
      BY <2>1, <2>4, <2>5, <3>3, <3>4, <3>5, Taken
    <3>7. Sound(tree', kind', handles', file', named')
      BY <1>6, <1>8, <2>7, <3>1, <3>6
    <3>8. QED
      BY <1>2, <3>7 DEF P9Inv
  <2>8. QED
    BY <2>6, <2>7
<1>9. QED
  BY <1>7, <1>8

\* fs_mkdir, fs_symlink, fs_mknod: no fid has anything to do with a new entry.
LEMMA MakeStep ==
  ASSUME P9Assumption, P9Inv, NEW f \in Fid, NEW name \in Name, NEW k \in Kinds,
         NEW fails \in BOOLEAN, NEW lost \in BOOLEAN, Idle, FsMake(f, name, k, fails, lost)
  PROVE  P9Inv'
<1> DEFINE p == ComposePath(file[f].path, name)
           refused == fails \/ ~Vacant(p) \/ FreeIno = {}
           i == Min(FreeIno)
<1>1. busy = None /\ busy' = None /\ UNCHANGED <<handles, file, named>>
  BY DEF Idle, FsMake, Answer
<1>2. CASE refused
  BY <1>1, <1>2 DEF FsMake, P9Inv
<1>3. CASE ~refused
  <2>0. MaxIno \in Nat /\ handles \in [1..MaxHandle -> 0..MaxIno] /\ Sound(tree, kind, handles, file, named)
    BY DEF P9Inv, Sound, P9Assumption
  <2>1. p \in Path /\ tree[p] = 0
    BY <1>3 DEF Vacant
  <2>2. i \in FreeIno
    <3>1. FreeIno \in SUBSET Nat
      BY <2>0 DEF FreeIno
    <3>2. QED
      BY <1>3, <3>1, LeastIsMember
  <2>3. HostAdds(p, i, k)
    BY <1>3 DEF FsMake
  <2> HIDE DEF i, p
  <2>4. i \in 1..MaxIno /\ \A h \in 1..MaxHandle : handles[h] # i
    BY <2>0, <2>2 DEF FreeIno, Range
  <2>5. Sound([tree EXCEPT ![p] = i], [kind EXCEPT ![i] = k], handles, file, named)
    BY <2>0, <2>1, <2>4, Grown
  <2>6. QED
    BY <1>1, <2>3, <2>5 DEF HostAdds, P9Inv
<1>4. QED
  BY <1>2, <1>3

\* fs_link: the new entry leads to an inode there is, of the kind it has.
LEMMA LinkStep ==
  ASSUME P9Assumption, P9Inv, NEW d \in Fid, NEW f \in Fid, NEW name \in Name, Link(d, f, name)
  PROVE  P9Inv'
<1> DEFINE p == ComposePath(file[d].path, name)
           i == At(file[f].path)
           refused == i = 0 \/ IsDir(file[f].path) \/ ~Vacant(p)
<1>1. busy = None /\ busy' = None /\ UNCHANGED <<kind, handles, file, named>>
  BY DEF Link, Known, Idle, FsLink, Answer
<1>2. CASE refused
  BY <1>1, <1>2 DEF Link, FsLink, P9Inv
<1>3. CASE ~refused
  <2>1. tree' = [tree EXCEPT ![p] = i] /\ p \in Path /\ tree[p] = 0 /\ i # 0
    BY <1>3 DEF Link, FsLink, Vacant
  <2>2. i \in 1..MaxIno
    BY <2>1, AtIs
  <2> HIDE DEF p, i
  <2>3. /\ Sound(tree, kind, handles, file, named) /\ kind[i] \in Kinds
        /\ [kind EXCEPT ![i] = kind[i]] = kind
    BY <2>2 DEF P9Inv, Sound
  <2>4. Sound([tree EXCEPT ![p] = i], [kind EXCEPT ![i] = kind[i]], handles, file, named)
    BY <2>1, <2>2, <2>3, Grown
  <2>5. QED
    BY <1>1, <2>1, <2>3, <2>4 DEF P9Inv
<1>4. QED
  BY <1>2, <1>3

\* fs_renameat: a path outside of both subtrees leads where it led.
LEMMA RenameStep ==
  ASSUME P9Assumption, P9Inv, NEW f \in Fid, NEW g \in Fid, NEW n \in Name, NEW m \in Name,
         Renameat(f, n, g, m)
  PROVE  P9Inv'
<1> DEFINE p == ComposePath(file[f].path, n)
           q == ComposePath(file[g].path, m)
           fs == Touched(p) \cup Touched(q)
<1>1. busy = None /\ busy' = None /\ UNCHANGED <<kind, handles, file>>
  BY DEF Renameat, Known, Idle, FsRenameat, Answer
<1>2. CASE RenameFails(p, q)
  BY <1>1, <1>2 DEF Renameat, FsRenameat, P9Inv
<1>3. CASE ~RenameFails(p, q)
  <2>1. tree' = HostRename(p, q) /\ named' = [x \in Fid |-> IF x \in fs THEN 0 ELSE named[x]]
    BY <1>3 DEF Renameat, FsRenameat, Forget
  <2>2. fs \in SUBSET Fid /\ \A x \in Fid \ fs : file[x].used => ~IsPrefix(p, file[x].path) /\ ~IsPrefix(q, file[x].path)
    BY DEF Touched
  <2> HIDE DEF p, q, fs
  <2>3. Sound(tree, kind, handles, file, named) /\ tree \in [Path -> 0..MaxIno]
    BY DEF P9Inv, Sound
  <2>4. HostRename(p, q) \in [Path -> 0..MaxIno]
    <3>1. 0 \in 0..MaxIno /\ \A x : At(x) \in 0..MaxIno
      BY AtIs DEF P9Assumption
    <3>2. QED
      BY <2>3, <3>1 DEF HostRename
  <2>5. \A x \in Fid \ fs : file[x].used => LookUp(HostRename(p, q), file[x].path) = LookUp(tree, file[x].path)
    BY <2>2 DEF HostRename, LookUp
  <2>6. Sound(HostRename(p, q), kind, handles, file, [x \in Fid |-> IF x \in fs THEN 0 ELSE named[x]])
    BY <2>2, <2>3, <2>4, <2>5, Rearranged
  <2>7. QED
    BY <1>1, <2>1, <2>6 DEF P9Inv
<1>4. QED
  BY <1>2, <1>3

\* fs_unlinkat: every path but the one removed leads where it led.
LEMMA UnlinkStep ==
  ASSUME P9Assumption, P9Inv, NEW f \in Fid, NEW n \in Name, Unlinkat(f, n)
  PROVE  P9Inv'
<1> DEFINE p == ComposePath(file[f].path, n)
           fs == Touched(p)
           refused == At(p) = 0 \/ Children(p) # {}
<1>1. busy = None /\ busy' = None /\ UNCHANGED <<kind, handles, file>>
  BY DEF Unlinkat, Known, Idle, FsUnlinkat, Answer
<1>2. CASE refused
  BY <1>1, <1>2 DEF Unlinkat, FsUnlinkat, P9Inv
<1>3. CASE ~refused
  <2>1. tree' = [tree EXCEPT ![p] = 0] /\ named' = [x \in Fid |-> IF x \in fs THEN 0 ELSE named[x]]
    BY <1>3 DEF Unlinkat, FsUnlinkat, Forget
  <2>2. p \in Path
    BY <1>3, AtIs
  <2>3. IsPrefix(p, p)
    BY <2>2, PathIsSeq
  <2>4. fs \in SUBSET Fid /\ \A x \in Fid \ fs : file[x].used => file[x].path # p
    BY <2>3 DEF Touched
  <2> HIDE DEF p, fs
  <2>5. Sound(tree, kind, handles, file, named) /\ tree \in [Path -> 0..MaxIno] /\ 0 \in 0..MaxIno
    BY DEF P9Inv, Sound, P9Assumption
  <2>6. tree' \in [Path -> 0..MaxIno]
    BY <2>1, <2>2, <2>5
  <2>7. \A x \in Fid \ fs : file[x].used => LookUp(tree', file[x].path) = LookUp(tree, file[x].path)
    BY <2>1, <2>2, <2>4, <2>5 DEF LookUp
  <2>8. Sound(tree', kind, handles, file, [x \in Fid |-> IF x \in fs THEN 0 ELSE named[x]])
    BY <2>4, <2>5, <2>6, <2>7, Rearranged
  <2>9. QED
    BY <1>1, <2>1, <2>8 DEF P9Inv
<1>4. QED
  BY <1>2, <1>3

\* A request that is only answered.
LEMMA AnswerStep == ASSUME P9Inv, NEW r, JustAnswer(r) PROVE P9Inv'
BY DEF JustAnswer, Answer, host, P9Inv

LEMMA FidStep == ASSUME P9Assumption, P9Inv, NEW f \in Fid, FidRequest(f) PROVE P9Inv'
<1>1. ASSUME NEW e \in BOOLEAN, Attach(f, e) PROVE P9Inv'
  BY <1>1, AttachStep
<1>2. CASE Clunk(f)
  BY <1>2, ClunkStep
<1>3. CASE LopenAsync(f)
  BY <1>3, LopenAsyncStep
<1>4. CASE \/ Getattr(f) \/ Readlink(f) \/ Setattr(f)
           \/ Readdir(f) \/ Read(f) \/ Write(f) \/ Lock(f) \/ Getlock(f)
  BY <1>4, AnswerStep DEF Getattr, Readlink, Setattr, Readdir, Read, Write, Lock, Getlock
<1>5. ASSUME NEW d \in BOOLEAN, NEW e \in BOOLEAN, Lopen(f, d, e) PROVE P9Inv'
  BY <1>5, LopenStep
<1>6. QED
  BY <1>1, <1>2, <1>3, <1>4, <1>5 DEF FidRequest

LEMMA NameStep ==
  ASSUME P9Assumption, P9Inv, NEW f \in Fid, NEW n \in Name, NameRequest(f, n) PROVE P9Inv'
<1>1. ASSUME NEW e \in BOOLEAN, NEW l \in BOOLEAN, Lcreate(f, n, e, l) PROVE P9Inv'
  BY <1>1, LcreateStep
<1>2. ASSUME NEW e \in BOOLEAN, NEW l \in BOOLEAN, Mkdir(f, n, e, l) \/ Symlink(f, n, e, l) \/ Mknod(f, n, e, l)
      PROVE  P9Inv'
  <2>1. "dir" \in Kinds /\ "link" \in Kinds /\ "file" \in Kinds
    BY DEF Kinds
  <2>2. Idle /\ \E k \in Kinds : FsMake(f, n, k, e, l)
    BY <1>2, <2>1 DEF Mkdir, Symlink, Mknod, FsMkdir, FsSymlink, FsMknod, Known
  <2>3. QED
    BY <2>2, MakeStep
<1>3. CASE Unlinkat(f, n)
  BY <1>3, UnlinkStep
<1>4. ASSUME NEW g \in Fid, Link(f, g, n) PROVE P9Inv'
  BY <1>4, LinkStep
<1>5. ASSUME NEW g \in Fid, NEW m \in Name, Renameat(f, n, g, m) PROVE P9Inv'
  BY <1>5, RenameStep
<1>6. QED
  BY <1>1, <1>2, <1>3, <1>4, <1>5 DEF NameRequest

LEMMA P9Step == ASSUME P9Assumption, P9Inv, Next PROVE P9Inv'
<1>1. CASE Statfs \/ Xattrwalk \/ Fsync \/ Version \/ Flush \/ Refused
  BY <1>1, AnswerStep DEF Statfs, Xattrwalk, Fsync, Version, Flush, Refused
<1>2. ASSUME NEW f \in Fid, FidRequest(f) PROVE P9Inv'
  BY <1>2, FidStep
<1>3. ASSUME NEW f \in Fid, NEW n \in Name, NameRequest(f, n) PROVE P9Inv'
  BY <1>3, NameStep
<1>4. ASSUME NEW f \in Fid, NEW g \in Fid, NEW p \in Path, Walk(f, g, p) PROVE P9Inv'
  BY <1>4, WalkStep
<1>5. ASSUME NEW d \in BOOLEAN, NEW e \in BOOLEAN, OpenCb(d, e) PROVE P9Inv'
  BY <1>5, OpenCbStep
<1>6. QED
  BY <1>1, <1>2, <1>3, <1>4, <1>5 DEF Next

LEMMA P9Start == ASSUME P9Assumption, Init PROVE P9Inv
<1>1. NoFile \in FileType /\ ~NoFile.opened /\ ~NoFile.used
  <2>1. 0 \in 0..MaxHandle /\ <<>> \in Seq(Name)
    BY DEF P9Assumption
  <2>2. QED
    BY <2>1 DEF NoFile, FileType
<1>2. /\ file \in [Fid -> FileType] /\ \A f \in Fid : ~file[f].opened /\ ~file[f].used
  BY <1>1 DEF Init
<1>3. 0 \in 0..MaxIno /\ 1 \in 0..MaxIno /\ MaxIno \in Nat
  BY DEF P9Assumption
<1>4. /\ tree \in [Path -> 0..MaxIno] /\ kind \in [1..MaxIno -> Kinds]
      /\ handles \in [1..MaxHandle -> 0..MaxIno] /\ named \in [Fid -> 0..MaxIno]
  BY <1>3 DEF Init, Kinds
<1>5. \A h \in 1..MaxHandle : handles[h] = 0
  BY DEF Init
<1>6. Sound(tree, kind, handles, file, named)
  BY <1>2, <1>4, <1>5 DEF Sound
<1>7. QED
  BY <1>6 DEF Init, P9Inv

\* Every state in which the invariant holds has the three properties.
LEMMA P9Right == ASSUME P9Assumption, P9Inv PROVE HandlesOwned /\ FidMeansFile /\ DirHandlesAreDirs
<1>1. Sound(tree, kind, handles, file, named)
  BY DEF P9Inv
<1>2. HandlesOwned
  BY <1>1 DEF HandlesOwned, Sound
<1>3. FidMeansFile
  BY <1>1, AtIs DEF FidMeansFile, Sound
<1>4. DirHandlesAreDirs
  BY <1>1 DEF DirHandlesAreDirs, Sound
<1>5. QED
  BY <1>2, <1>3, <1>4

(* Whatever the guest asks, in whatever order, and whichever calls of the   *)
(* host fail: the descriptors the program holds are those of the fids that  *)
(* are open, each of its own (fs_close, fs_delete, fid_set); a fid whose    *)
(* path nothing has touched still means the file it was given for; and what *)
(* is open as a directory is one (fs_open).                                 *)
THEOREM FidsKeepFiles ==
  ASSUME P9Assumption PROVE Spec => [](HandlesOwned /\ FidMeansFile /\ DirHandlesAreDirs)
<1>1. Init => P9Inv
  BY P9Start
<1>2. P9Inv /\ [Next]_vars => P9Inv'
  <2> SUFFICES ASSUME P9Inv, [Next]_vars PROVE P9Inv'
    OBVIOUS
  <2>1. CASE Next
    BY <2>1, P9Step
  <2>2. CASE UNCHANGED vars
    BY <2>2 DEF vars, P9Inv
  <2>3. QED
    BY <2>1, <2>2
<1>3. P9Inv => HandlesOwned /\ FidMeansFile /\ DirHandlesAreDirs
  BY P9Right
<1>4. QED
  BY <1>1, <1>2, <1>3, PTL DEF Spec

=============================================================================
