------------------------------- MODULE Files -------------------------------
(***************************************************************************)
(* What files promise to a program: a file is a finite sequence of bytes   *)
(* and nothing else.  A read returns what lies at its place, a write puts  *)
(* its bytes there, and every byte nobody wrote is zero.  MemFS implements *)
(* this with an array that is longer than the file.                        *)
(***************************************************************************)
EXTENDS Integers, Sequences

CONSTANTS Bytes,      \* the values of a byte that programs write
          MaxLen,     \* the longest file
          Position    \* stands for the descriptor's own position

VARIABLES content,    \* file |-> its bytes
          open,       \* descriptor |-> [node, append, pos]
          got         \* the bytes the last call returned

vars == <<content, open, got>>

\* The bytes of s up to n, with zeros past its end.
Sized(s, n) == [i \in 1..n |-> IF i <= Len(s) THEN s[i] ELSE 0]

\* s with the bytes b after the offset start; it grows when b ends past its end.
Overwrite(s, start, b) ==
  LET end == start + Len(b)
  IN  [i \in 1..(IF end > Len(s) THEN end ELSE Len(s)) |->
         IF i \in start + 1..end THEN b[i - start] ELSE Sized(s, i)[i]]

\* The bytes a read of length n after the offset start returns.
Piece(s, start, n) ==
  SubSeq(s, start + 1, IF start + n < Len(s) THEN start + n ELSE Len(s))

Offset(f, position) == IF position = Position THEN f.pos ELSE position

MovesTo(fd, position, end) ==
  open' = IF position = Position THEN [open EXCEPT ![fd].pos = end] ELSE open

Write(fd, b, position) ==
  LET f     == open[fd]
      start == IF f.append THEN Len(content[f.node]) ELSE Offset(f, position)
  IN  /\ f.node \in DOMAIN content
      /\ content' = [content EXCEPT ![f.node] = Overwrite(@, start, b)]
      /\ MovesTo(fd, position, start + Len(b))
      /\ got' = <<>>

Read(fd, n, position) ==
  LET f     == open[fd]
      start == Offset(f, position)
  IN  /\ f.node \in DOMAIN content
      /\ got' = Piece(content[f.node], start, n)
      /\ MovesTo(fd, position, start + Len(got'))
      /\ UNCHANGED content

Truncate(file, n) == /\ content' = [content EXCEPT ![file] = Sized(@, n)]
                     /\ got' = <<>>
                     /\ UNCHANGED open

\* What the host gets of a file.
ReadAll(file) == got' = content[file] /\ UNCHANGED <<content, open>>

\* Names are not part of this specification: creating, opening, closing and
\* removing change the bytes of no file, but that opening may empty one, and
\* leave the other descriptors where they are.
Naming ==
  /\ \A file \in DOMAIN content : content'[file] \in {content[file], <<>>}
  /\ \A file \in DOMAIN content' \ DOMAIN content : Len(content'[file]) <= MaxLen
  /\ \A fd \in DOMAIN open \cap DOMAIN open' : open'[fd] = open[fd]
  /\ \A fd \in DOMAIN open' \ DOMAIN open : open'[fd].pos = 0
  /\ got' = <<>>

Next ==
  \/ \E fd \in DOMAIN open, n \in 0..MaxLen, position \in {Position} \cup 0..MaxLen :
       \/ Read(fd, n, position)
       \/ \E b \in [1..n -> Bytes] : Write(fd, b, position)
  \/ \E file \in DOMAIN content : ReadAll(file) \/ \E n \in 0..MaxLen : Truncate(file, n)
  \/ Naming

Spec == content = << >> /\ open = << >> /\ got = << >> /\ [][Next]_vars
=============================================================================
