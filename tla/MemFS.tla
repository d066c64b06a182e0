------------------------------- MODULE MemFS -------------------------------
(***************************************************************************)
(* The in-memory filesystem the Go tools and programs run on               *)
(* (src/web/src/runner/memfs.ts): a tree of directories, files as growing  *)
(* arrays, and descriptors.  Nodes are numbered by their ino; a directory  *)
(* is in the domain of dirs, a file in the domain of data and size.  Every *)
(* call runs to its end before it returns (MemFS.call) and only its answer *)
(* waits for a microtask, so a call is one action and its answer is res.   *)
(* Modes, times and the rest of the stat record are left out.              *)
(***************************************************************************)
EXTENDS Integers, Sequences, SequencesExt

CONSTANTS Paths,      \* the paths callers use: [abs, parts]
          FlagSets,   \* the flags callers pass to open
          Bytes,      \* the values of a byte that programs write
          Position,   \* the null position: the descriptor's own
          MaxIno,     \* bound on the nodes ever made
          MaxFd,      \* bound on the descriptors ever opened
          MaxLen,     \* bound on the length of a file
          MinCap,     \* the least capacity of an array that grows (4096)
          Gaps        \* whether programs write past the end of a file

VARIABLES dirs,       \* directory |-> its children: name |-> node
          data,       \* file |-> the array
          size,       \* file |-> how much of the array is the file
          fds,        \* descriptor |-> [node, append, pos]
          nextFd,
          cwdPath,    \* the components of the working directory
          res         \* the answer of the last call: [err, got]

vars == <<dirs, data, size, fds, nextFd, cwdPath, res>>

Root == 1
NoNode == 0
Files == DOMAIN data
Nodes == DOMAIN dirs \cup Files
nextIno == 1 + CHOOSE last \in Nodes : \A n \in Nodes : n <= last

Answer(err, got) == res' = [err |-> err, got |-> got]
Done == Answer("ok", <<>>)
\* The host's helpers return, and call nobody back.
Returned == Answer("returned", <<>>)
Fails(err) == Answer(err, <<>>) /\ UNCHANGED <<dirs, data, size, fds, nextFd, cwdPath>>

-----------------------------------------------------------------------------
\* Paths and names.

Given(path) == IF path.abs THEN path.parts ELSE cwdPath \o path.parts
Resolved(given) ==
  LET out[i \in 0..Len(given)] ==
        IF i = 0 THEN <<>>
        ELSE IF given[i] # ".." THEN Append(out[i - 1], given[i])
        ELSE IF out[i - 1] = <<>> THEN <<>> ELSE Front(out[i - 1])
  IN  out[Len(given)]
Split(path) == Resolved(Given(path))

Child(n, name) ==
  IF n \in DOMAIN dirs /\ name \in DOMAIN dirs[n] THEN dirs[n][name] ELSE NoNode

\* The nodes on the way, from the root: NoNode where the way ends.
Along(parts) ==
  LET at[i \in 0..Len(parts)] == IF i = 0 THEN Root ELSE Child(at[i - 1], parts[i])
  IN  at
Walk(parts) == Along(parts)[Len(parts)]
Lookup(path) == Walk(Split(path))

\* What MemFS.parent throws, and otherwise the directory and the last name.
ParentError(path) ==
  LET parts == Split(path)
  IN  CASE parts = <<>>                            -> "EINVAL"
        [] parts # <<>> /\ Walk(Front(parts)) = NoNode -> "ENOENT"
        [] parts # <<>> /\ Walk(Front(parts)) \in Files -> "ENOTDIR"
        [] OTHER                                   -> "ok"
ParentOf(path) == Walk(Front(Split(path)))
NameOf(path) == Last(Split(path))

Plus(f, x, v) == [y \in DOMAIN f \cup {x} |-> IF y = x THEN v ELSE f[y]]
With(t, dir, name, n) == [t EXCEPT ![dir] = Plus(@, name, n)]
Less(t, dir, name) == [t EXCEPT ![dir] = [x \in DOMAIN @ \ {name} |-> @[x]]]

\* mkdirAll: the tree with every directory of parts, made where it is missing.
\* A file in the way makes it throw before it has made any.
Deepest(parts) == CHOOSE k \in 0..Len(parts) :
  /\ Along(parts)[k] # NoNode
  /\ k < Len(parts) => Along(parts)[k + 1] = NoNode
Missing(parts) == Len(parts) - Deepest(parts)
Blocked(parts) == Along(parts)[Deepest(parts)] \in Files
AllMade(parts) ==
  LET k   == Deepest(parts)
      top == Along(parts)[k]
  IN  [n \in DOMAIN dirs \cup nextIno..nextIno + Missing(parts) - 1 |->
         IF n >= nextIno
         THEN [x \in {parts[j] : j \in {k + 2 + n - nextIno} \cap 1..Len(parts)} |-> n + 1]
         ELSE IF n = top /\ Missing(parts) > 0 THEN Plus(dirs[n], parts[k + 1], nextIno)
         ELSE dirs[n]]
\* The directory at the end of them.
Bottom(parts) == IF Missing(parts) = 0 THEN Walk(parts) ELSE nextIno + Missing(parts) - 1

-----------------------------------------------------------------------------
\* The helpers of the host.

MkdirAll(path) ==
  LET parts == Split(path)
  IN  IF Blocked(parts) THEN Fails("ENOTDIR")
      ELSE /\ dirs' = AllMade(parts)
           /\ Done
           /\ UNCHANGED <<data, size, fds, nextFd, cwdPath>>

\* writeFile makes the directories above, then puts a new file under the name,
\* whatever had it before.
WriteFile(path, bytes) ==
  LET parts == Split(path)
  IN  IF parts = <<>> THEN Fails("EINVAL")
      ELSE IF Blocked(Front(parts)) THEN Fails("ENOTDIR")
      ELSE LET file == nextIno + Missing(Front(parts))
           IN  /\ dirs' = With(AllMade(Front(parts)), Bottom(Front(parts)), Last(parts), file)
               /\ data' = Plus(data, file, bytes)
               /\ size' = Plus(size, file, Len(bytes))
               /\ Returned
               /\ UNCHANGED <<fds, nextFd, cwdPath>>

Contents(file) == SubSeq(data[file], 1, size[file])

ReadFile(path) ==
  LET n == Lookup(path)
  IN  CASE n = NoNode       -> Fails("ENOENT")
        [] n \in DOMAIN dirs -> Fails("EISDIR")
        [] OTHER          -> /\ Answer("ok", Contents(n))
                             /\ UNCHANGED <<dirs, data, size, fds, nextFd, cwdPath>>

RemoveAll(path) ==
  LET parts == Split(path)
      dir   == Walk(Front(parts))
  IN  /\ dirs' = IF parts # <<>> /\ dir \in DOMAIN dirs THEN Less(dirs, dir, Last(parts)) ELSE dirs
      /\ Returned
      /\ UNCHANGED <<data, size, fds, nextFd, cwdPath>>

Chdir(path) ==
  LET n == Lookup(path)
  IN  CASE n = NoNode     -> Fails("ENOENT")
        [] n \in Files  -> Fails("ENOTDIR")
        [] OTHER        -> /\ cwdPath' = Split(path)
                           /\ Done
                           /\ UNCHANGED <<dirs, data, size, fds, nextFd>>

-----------------------------------------------------------------------------
\* The calls of a program.

\* open makes the file before it checks what else the flags ask for: it may
\* fail and leave a new empty file behind.
Open(path, flags) ==
  LET n     == Lookup(path)
      new   == n = NoNode
      node  == IF new THEN nextIno ELSE n
      isDir == n \in DOMAIN dirs
      made  == /\ dirs' = IF new THEN With(dirs, ParentOf(path), NameOf(path), node) ELSE dirs
               /\ data' = IF new THEN Plus(data, node, <<>>) ELSE data
      err   == CASE "directory" \in flags /\ ~isDir -> "ENOTDIR"
                 [] "write" \in flags /\ isDir      -> "EISDIR"
                 [] OTHER                           -> "ok"
  IN  IF ~new /\ {"creat", "excl"} \subseteq flags THEN Fails("EEXIST")
      ELSE IF new /\ "creat" \notin flags THEN Fails("ENOENT")
      ELSE IF new /\ ParentError(path) # "ok" THEN Fails(ParentError(path))
      ELSE IF err # "ok"
      THEN /\ made
           /\ size' = IF new THEN Plus(size, node, 0) ELSE size
           /\ Answer(err, <<>>)
           /\ UNCHANGED <<fds, nextFd, cwdPath>>
      ELSE /\ made
           /\ size' = IF isDir \/ ~(new \/ "trunc" \in flags) THEN size ELSE Plus(size, node, 0)
           /\ fds' = Plus(fds, nextFd, [node |-> node, append |-> "append" \in flags, pos |-> 0])
           /\ nextFd' = nextFd + 1
           /\ Done
           /\ UNCHANGED cwdPath

Close(fd) ==
  IF fd \notin DOMAIN fds THEN Fails("EBADF")
  ELSE /\ fds' = [x \in DOMAIN fds \ {fd} |-> fds[x]]
       /\ Done
       /\ UNCHANGED <<dirs, data, size, nextFd, cwdPath>>

Least(a, b) == IF a < b THEN a ELSE b
Most(a, b) == IF a > b THEN a ELSE b
Start(f, position) == IF position = Position THEN f.pos ELSE position

Seeks(fd, position, to) ==
  fds' = IF position = Position THEN [fds EXCEPT ![fd].pos = to] ELSE fds

Read(fd, n, position) ==
  IF fd \notin DOMAIN fds THEN Fails("EBADF")
  ELSE IF fds[fd].node \notin Files THEN Fails("EISDIR")
  ELSE LET file  == fds[fd].node
           start == Start(fds[fd], position)
           count == Most(0, Least(n, size[file] - start))
       IN  /\ Answer("ok", SubSeq(data[file], start + 1, start + count))
           /\ Seeks(fd, position, start + count)
           /\ UNCHANGED <<dirs, data, size, nextFd, cwdPath>>

\* An array of n bytes that starts with the bytes of the file.
Grown(file, n) == [i \in 1..n |-> IF i <= size[file] THEN data[file][i] ELSE 0]

\* The array that holds a write of the file up to end.
Room(file, end) ==
  IF end > Len(data[file])
  THEN Grown(file, Most(end, Most(Len(data[file]) * 2, MinCap)))
  ELSE data[file]

Write(fd, b, position) ==
  IF fd \notin DOMAIN fds THEN Fails("EBADF")
  ELSE IF fds[fd].node \notin Files THEN Fails("EISDIR")
  ELSE LET file  == fds[fd].node
           start == IF fds[fd].append THEN size[file] ELSE Start(fds[fd], position)
           end   == start + Len(b)
           room  == Room(file, end)
       IN  /\ end <= MaxLen
           /\ Gaps \/ start <= size[file]
           /\ data' = [data EXCEPT ![file] =
                         [i \in 1..Len(room) |-> IF i \in start + 1..end THEN b[i - start]
                                                                        ELSE room[i]]]
           /\ size' = [size EXCEPT ![file] = Most(@, end)]
           /\ Seeks(fd, position, end)
           /\ Done
           /\ UNCHANGED <<dirs, nextFd, cwdPath>>

\* A mutant: nothing is cleared.
ClearedNot(file, n) == IF n > Len(data[file]) THEN Grown(file, n) ELSE data[file]

\* truncate_: the array keeps its bytes when the file shrinks, and the bytes
\* between the file and its new end are cleared when it grows.
Cleared(file, n) ==
  CASE n > Len(data[file]) -> Grown(file, n)
    [] n \in size[file] + 1..Len(data[file]) ->
         [i \in 1..Len(data[file]) |-> IF i \in size[file] + 1..n THEN 0 ELSE data[file][i]]
    [] OTHER -> data[file]

TruncateNode(n, len) ==
  IF n \notin Files THEN Fails("EISDIR")
  ELSE /\ data' = [data EXCEPT ![n] = Cleared(n, len)]
       /\ size' = [size EXCEPT ![n] = len]
       /\ Done
       /\ UNCHANGED <<dirs, fds, nextFd, cwdPath>>

Truncate(path, len) ==
  IF Lookup(path) = NoNode THEN Fails("ENOENT") ELSE TruncateNode(Lookup(path), len)
Ftruncate(fd, len) ==
  IF fd \notin DOMAIN fds THEN Fails("EBADF") ELSE TruncateNode(fds[fd].node, len)

Mkdir(path) ==
  IF Lookup(path) # NoNode THEN Fails("EEXIST")
  ELSE IF ParentError(path) # "ok" THEN Fails(ParentError(path))
  ELSE /\ dirs' = Plus(With(dirs, ParentOf(path), NameOf(path), nextIno), nextIno, << >>)
       /\ Done
       /\ UNCHANGED <<data, size, fds, nextFd, cwdPath>>

\* What unlink and rmdir throw for a node they may not remove.
UnlinkError(n) == CASE n = NoNode -> "ENOENT" [] n \in DOMAIN dirs -> "EISDIR" [] OTHER -> "ok"
RmdirError(n) ==
  CASE n = NoNode                                -> "ENOENT"
    [] n \in Files                               -> "ENOTDIR"
    [] n \in DOMAIN dirs /\ DOMAIN dirs[n] # {}  -> "ENOTEMPTY"
    [] OTHER                                     -> "ok"

TakeAway(path, errorOf) ==
  LET err == IF ParentError(path) # "ok" THEN ParentError(path)
             ELSE errorOf[Child(ParentOf(path), NameOf(path))]
  IN  IF err # "ok" THEN Fails(err)
      ELSE /\ dirs' = Less(dirs, ParentOf(path), NameOf(path))
           /\ Done
           /\ UNCHANGED <<data, size, fds, nextFd, cwdPath>>

Unlink(path) == TakeAway(path, [n \in Nodes \cup {NoNode} |-> UnlinkError(n)])
Rmdir(path) == TakeAway(path, [n \in Nodes \cup {NoNode} |-> RmdirError(n)])

\* A mutant of rename: the old name goes before the new one is known to be good.
RenameEarly(from, to) ==
  LET node == Child(ParentOf(from), NameOf(from))
      left == Less(dirs, ParentOf(from), NameOf(from))
  IN  IF ParentError(from) # "ok" THEN Fails(ParentError(from))
      ELSE IF node = NoNode THEN Fails("ENOENT")
      ELSE /\ dirs' = IF ParentError(to) # "ok" THEN left
                      ELSE With(left, ParentOf(to), NameOf(to), node)
           /\ Answer(ParentError(to), <<>>)
           /\ UNCHANGED <<data, size, fds, nextFd, cwdPath>>

\* rename checks neither what the new name has, nor that the new name is not
\* below the old one.
Rename(from, to) ==
  LET node == Child(ParentOf(from), NameOf(from))
  IN  IF ParentError(from) # "ok" THEN Fails(ParentError(from))
      ELSE IF node = NoNode THEN Fails("ENOENT")
      ELSE IF ParentError(to) # "ok" THEN Fails(ParentError(to))
      ELSE /\ dirs' = With(Less(dirs, ParentOf(from), NameOf(from)),
                           ParentOf(to), NameOf(to), node)
           /\ Done
           /\ UNCHANGED <<data, size, fds, nextFd, cwdPath>>

-----------------------------------------------------------------------------
Init == /\ dirs = [d \in {Root} |-> << >>]
        /\ data = << >> /\ size = << >>
        /\ fds = << >> /\ nextFd = 3
        /\ cwdPath = <<>>
        /\ res = [err |-> "ok", got |-> <<>>]

Strings(n) == UNION {[1..k -> Bytes] : k \in 0..n}
Positions == {Position} \cup 0..MaxLen

\* What the host does to the tree, and what a program does to it.
HostNext ==
  \E path \in Paths :
    \/ nextIno + Len(path.parts) <= MaxIno + 1 /\ MkdirAll(path)
    \/ /\ nextIno + Len(path.parts) <= MaxIno + 1
       /\ \E bytes \in Strings(1) : WriteFile(path, bytes)
    \/ ReadFile(path)
    \/ RemoveAll(path)
    \/ Chdir(path)

NameNext ==
  \E path \in Paths :
    \/ nextIno <= MaxIno /\ nextFd <= MaxFd /\ \E flags \in FlagSets : Open(path, flags)
    \/ nextIno <= MaxIno /\ Mkdir(path)
    \/ Unlink(path)
    \/ Rmdir(path)
    \/ \E to \in Paths : Rename(path, to)

FileNext ==
  \/ \E path \in Paths, n \in 0..MaxLen : Truncate(path, n)
  \/ \E fd \in 3..MaxFd :
       \/ Close(fd)
       \/ \E n \in 0..MaxLen : Ftruncate(fd, n)
       \/ \E position \in Positions :
            \/ \E n \in 1..MaxLen : Read(fd, n, position)
            \/ \E b \in Strings(2) : Write(fd, b, position)

Next == HostNext \/ NameNext \/ FileNext
Spec == Init /\ [][Next]_vars

-----------------------------------------------------------------------------
\* The variables keep their types: names and descriptors lead to nodes, and no
\* file is longer than its array.
MemTypeOK ==
  /\ Root \in DOMAIN dirs /\ DOMAIN dirs \cap Files = {}
  /\ \A d \in DOMAIN dirs : \A x \in DOMAIN dirs[d] : dirs[d][x] \in Nodes
  /\ DOMAIN size = Files
  /\ \A f \in Files : /\ data[f] \in Seq(Bytes)
                      /\ size[f] \in 0..Len(data[f])
  /\ \A fd \in DOMAIN fds : /\ fd \in 3..nextFd - 1
                            /\ fds[fd].node \in Nodes /\ fds[fd].append \in BOOLEAN
                            /\ fds[fd].pos \in Nat

\* A node has at most one name, and the root has none: whatever is created,
\* renamed over, moved and removed, the directories never share a child, so a
\* write through one path is never seen through another (memfs.ts, rename,
\* mkdirAll, writeFile).
OneName ==
  \A d, e \in DOMAIN dirs : \A x \in DOMAIN dirs[d] :
    /\ dirs[d][x] # Root
    /\ \A y \in DOMAIN dirs[e] : dirs[d][x] = dirs[e][y] => d = e /\ x = y

\* The nodes a path leads to: those in every set of nodes that has the root and,
\* with a directory, its children.
Closed(S) == \A d \in S \cap DOMAIN dirs : \A x \in DOMAIN dirs[d] : dirs[d][x] \in S
Named == {n \in Nodes : \A S \in SUBSET Nodes : Root \in S /\ Closed(S) => n \in S}

\* A call that fails takes nothing away: every name still leads to its node and
\* every file has its bytes, whatever the call had done before it threw
\* (open makes the file before its last checks).
FailureKeeps ==
  [][res'.err \notin {"ok", "returned"} =>
       /\ \A d \in DOMAIN dirs : \A x \in DOMAIN dirs[d] :
            d \in DOMAIN dirs' /\ x \in DOMAIN dirs'[d] /\ dirs'[d][x] = dirs[d][x]
       /\ \A f \in Files : data'[f] = data[f] /\ size'[f] = size[f]]_vars

\* Only the host's removeAll and writeFile, and rename, take whole directories
\* away: any other step loses at most one name, of a file or of an empty
\* directory (rmdir, unlink, mkdir and open).
LosesOne ==
  [][LET lost == Named \ Named'
     IN  \/ dirs' = dirs
         \/ res'.err = "returned"
         \/ /\ \A m, n \in lost : m = n
            /\ \A n \in lost \cap DOMAIN dirs : dirs[n] = << >>
         \/ \E path, to \in Paths : Rename(path, to)]_vars

\* A file is the sequence of bytes that were written to it (module Files): the
\* array's spare bytes never show.
Content == INSTANCE Files WITH content <- [f \in Files |-> Contents(f)],
                               open <- fds, got <- res.got
FileSpec == Content!Spec
=============================================================================
