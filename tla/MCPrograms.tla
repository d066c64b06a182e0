----------------------------- MODULE MCPrograms -----------------------------
(***************************************************************************)
(* A behaviour of module Programs is one of its part, and the others stand *)
(* still.  The filesystem is two parts: a tree of names, whose files have  *)
(* one byte at most, and the contents of one file, the only name.          *)
(***************************************************************************)
EXTENDS Programs

VARIABLE part   \* what the behaviour is about

progVars == <<part, vars, runVars, fsVars>>

At(parts) == [abs |-> TRUE, parts |-> parts]
From(parts) == [abs |-> FALSE, parts |-> parts]
MCPaths == {At(<<"a">>), At(<<"a", "b">>), From(<<"b">>), From(<<"..">>)}
\* os.Open, os.Create, an exclusive create and two with O_DIRECTORY; an append.
MCFlagSets == {{}, {"write", "creat"}, {"write", "creat", "trunc"}, {"write", "creat", "excl"},
               {"directory"}, {"creat", "directory"}, {"write", "append"}}

\* Bounds on the next state.  There are two descriptors as long as the array has
\* its first length.
SmallFiles == /\ nextFd' <= 4 /\ \A fd \in DOMAIN fds' : ~fds'[fd].append
              /\ \A f \in DOMAIN data' : data'[f] \in {<<>>, <<0>>}
              /\ res'.got = <<>>
OneFile == /\ DOMAIN dirs' = {1} /\ DOMAIN dirs'[1] \subseteq {"a"} /\ DOMAIN data' \subseteq {2}
           /\ \A fd \in DOMAIN fds' : fds'[fd].node = 2
           /\ nextFd' <= 4 \/ \A f \in DOMAIN data' : Len(data'[f]) <= MinCap
           /\ res'.err \in {"ok", "returned"}
Naming == FS!HostNext \/ FS!NameNext \/ \E fd \in 3..MaxFd : FS!Close(fd)

ProgInit == part \in {"checker", "run", "tree", "file"} /\ Init /\ Run!Init /\ FS!Init
ProgNext ==
  /\ \/ part = "checker" /\ Next /\ UNCHANGED <<runVars, fsVars>>
     \/ part = "run" /\ Run!Next /\ UNCHANGED <<vars, fsVars>>
     \/ part = "tree" /\ Naming /\ SmallFiles /\ UNCHANGED <<vars, runVars>>
     \/ part = "file" /\ FS!Next /\ OneFile /\ UNCHANGED <<vars, runVars>>
  /\ UNCHANGED part
\* In the other parts nothing of a run is due.
ProgSpec == ProgInit /\ [][ProgNext]_progVars /\ (part = "checker" => Fairness) /\ Run!Fairness

\* What has begun comes to an end: the checker whatever the commands say, a program
\* whose goroutines all block, and the wait of output in the batch (run.go, go.ts,
\* runner.worker.ts).
ProgramsEnd == (part = "checker" => Reports) /\ Run!BlockedEnds /\ Run!OutputAppears
=============================================================================
