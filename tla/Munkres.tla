------------------------------ MODULE Munkres ------------------------------
(***************************************************************************)
(* mtdev_match of contrib/bitmap_munkres: the Hungarian algorithm on bit   *)
(* maps, which the Munkres blob tracker asks for the cheapest assignment   *)
(* of new blobs to known ones.  The bit maps are sets: mstar and mprime of *)
(* <<row, col>>, ccol and crow of covered columns and rows.                *)
(***************************************************************************)
EXTENDS Integers, FiniteSets, FiniteSetsExt, Functions

CONSTANTS
  Problems              \* [nrows, ncols, A]: A the costs, by <<row, col>>

VARIABLES problem, m

vars == <<problem, m>>

Rows == 1..problem.nrows
Cols == 1..problem.ncols
dmin == Min({problem.nrows, problem.ncols})

StarredCols(mstar) == {z[2] : z \in mstar}

\* The first zero of each line in turn, skipping the lines taken across.
StarRows(mdist) ==
  LET star[row \in 0..problem.nrows] ==
        IF row = 0 THEN {}
        ELSE LET free == {col \in Cols : mdist[row, col] = 0 /\ col \notin StarredCols(star[row - 1])}
             IN star[row - 1] \cup (IF free = {} THEN {} ELSE {<<row, Min(free)>>})
  IN star[problem.nrows]
StarCols(mdist) ==
  LET star[col \in 0..problem.ncols] ==
        IF col = 0 THEN {}
        ELSE LET free == {row \in Rows : mdist[row, col] = 0
                                           /\ row \notin {z[1] : z \in star[col - 1]}}
             IN star[col - 1] \cup (IF free = {} THEN {} ELSE {<<Min(free), col>>})
  IN star[problem.ncols]

\* ixoptimal up to step2b: the least of each line of the shorter kind is
\* subtracted from it.
Reduced ==
  LET A == problem.A IN
  IF problem.nrows <= problem.ncols
  THEN [z \in Rows \X Cols |-> A[z] - Min({A[z[1], col] : col \in Cols})]
  ELSE [z \in Rows \X Cols |-> A[z] - Min({A[row, z[2]] : row \in Rows})]

ixoptimal ==
  LET star == IF problem.nrows <= problem.ncols THEN StarRows(Reduced) ELSE StarCols(Reduced)
  IN [mdist |-> Reduced, mstar |-> star, mprime |-> {}, ccol |-> StarredCols(star), crow |-> {},
      pc |-> "step2b", zero |-> <<0, 0>>, ix |-> [row \in Rows |-> -1]]

Init == problem \in Problems /\ m = ixoptimal

\* step2b with buildixvector
step2b ==
  /\ m.pc = "step2b"
  /\ m' = IF Cardinality(m.ccol) = dmin
          THEN [m EXCEPT !.pc = "done",
                         !.ix = [row \in Rows |->
                            LET cols == {col \in Cols : <<row, col>> \in m.mstar}
                            IN IF cols = {} THEN -1 ELSE Min(cols)]]
          ELSE [m EXCEPT !.pc = "step3"]
  /\ UNCHANGED problem

\* One zero is primed: the next one behind the column of the last, else the
\* first one, as the scan begins again while it finds any.
step3 ==
  /\ m.pc = "step3"
  /\ LET zeros == {z \in Rows \X Cols : m.mdist[z] = 0 /\ z[2] \notin m.ccol /\ z[1] \notin m.crow}
         behind == {z \in zeros : z[2] > m.zero[2]}
         scan == IF behind = {} THEN zeros ELSE behind
         col == Min({z[2] : z \in scan})
         row == Min({z[1] : z \in {z \in scan : z[2] = col}})
         stars == {cstar \in Cols : <<row, cstar>> \in m.mstar}
     IN m' = IF zeros = {} THEN [m EXCEPT !.pc = "step5", !.zero = <<0, 0>>]
             ELSE IF stars = {}
             THEN [m EXCEPT !.mprime = @ \cup {<<row, col>>}, !.pc = "step4", !.zero = <<row, col>>]
             ELSE [m EXCEPT !.mprime = @ \cup {<<row, col>>}, !.zero = <<row, col>>,
                            !.crow = @ \cup {row}, !.ccol = @ \ {Min(stars)}]
  /\ UNCHANGED problem

\* The alternating path of primed and starred zeros from z: the zeros to
\* star and the stars to take away.
Path(z) ==
  LET path[n \in 0..(problem.nrows)] ==
        IF n = 0 THEN [star |-> {z}, clear |-> {}, at |-> z[2]]
        ELSE LET p == path[n - 1]
                 stars == {row \in Rows : <<row, p.at>> \in m.mstar}
             IN IF stars = {} THEN p
                ELSE LET rstar == Min(stars)
                         primeCol == Min({col \in Cols : <<rstar, col>> \in m.mprime})
                     IN [star |-> p.star \cup {<<rstar, primeCol>>},
                         clear |-> p.clear \cup {<<rstar, p.at>>}, at |-> primeCol]
  IN path[problem.nrows]

\* Faulty: the primes are kept for the next path.
step4_KeepsPrimes ==
  /\ m.pc = "step4"
  /\ LET path == Path(m.zero)
         star == (m.mstar \ path.clear) \cup path.star
     IN m' = [m EXCEPT !.mstar = star, !.crow = {},
                       !.ccol = @ \cup StarredCols(star), !.zero = <<0, 0>>, !.pc = "step2b"]
  /\ UNCHANGED problem

\* step4 and step2a: the columns covered so far stay covered.
step4 ==
  /\ m.pc = "step4"
  /\ LET path == Path(m.zero)
         star == (m.mstar \ path.clear) \cup path.star
     IN m' = [m EXCEPT !.mstar = star, !.mprime = {}, !.crow = {},
                       !.ccol = @ \cup StarredCols(star), !.zero = <<0, 0>>, !.pc = "step2b"]
  /\ UNCHANGED problem

step5 ==
  /\ m.pc = "step5"
  /\ LET open == {z \in Rows \X Cols : z[1] \notin m.crow /\ z[2] \notin m.ccol} IN
     m' = IF open = {} THEN [m EXCEPT !.pc = "done"]
          ELSE LET h == Min({m.mdist[z] : z \in open})
               IN [m EXCEPT !.mdist = [z \in Rows \X Cols |->
                                         @[z] + (IF z[1] \in m.crow THEN h ELSE 0)
                                              - (IF z[2] \notin m.ccol THEN h ELSE 0)],
                            !.pc = "step3"]
  /\ UNCHANGED problem

Next == step2b \/ step3 \/ step4 \/ step5

Spec == Init /\ [][Next]_vars
-----------------------------------------------------------------------------
Cost(pairs) == FoldSet(LAMBDA z, sum : sum + problem.A[z], 0, pairs)
Assigned == {<<row, m.ix[row]>> : row \in {row \in Rows : m.ix[row] # -1}}

\* Every assignment of all the rows or all the columns.
Assignments ==
  IF problem.nrows <= problem.ncols
  THEN {{<<row, f[row]>> : row \in Rows} : f \in Injection(Rows, Cols)}
  ELSE {{<<f[col], col>> : col \in Cols} : f \in Injection(Cols, Rows)}

(* When mtdev_match returns, its ix assigns as many rows as it can, each   *)
(* to a column of its own, and no other assignment is cheaper, although    *)
(* step5 has a return for the case that nothing is uncovered which leaves  *)
(* ix at -1, and the stars it is built from are moved by every pass.       *)
AssignmentIsCheapest ==
  m.pc = "done" =>
    /\ Assigned \in Assignments
    /\ \A other \in Assignments : Cost(Assigned) <= Cost(other)
=============================================================================
