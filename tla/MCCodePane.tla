----------------------------- MODULE MCCodePane -----------------------------
(***************************************************************************)
(* Instances of the code pane.  Two published scaffolds, one of which gofmt*)
(* changes and one of which does not compile, and a solution; and for the  *)
(* Stop button a solution that loops.                                      *)
(***************************************************************************)
EXTENDS CodePane, TLC

AllCodes == {"old", "rough", "fix"}
Published == {"old", "fix"}
CodeBehaves == ("old" :> "broken" @@ "rough" :> "passes" @@ "fix" :> "passes")
CodeFormatted == [c \in AllCodes |-> IF c = "rough" THEN "fix" ELSE c]

FewCodes == {"old", "loop"}
OnePublished == {"old"}
FewBehaves == ("old" :> "fails" @@ "loop" :> "loops")
FewFormatted == [c \in FewCodes |-> c]
=============================================================================
