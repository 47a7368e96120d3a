----------------------------- MODULE Background -----------------------------
(***************************************************************************)
(* The end of mask_background (swipe.rs): background is filled from the    *)
(* border of the image through the pixels without finger.  Which pixels    *)
(* these are (`open`) is signal processing, and left open here.            *)
(*                                                                         *)
(* As in the code a pixel is its index in the row-major image.             *)
(***************************************************************************)
EXTENDS Integers, Sequences

CONSTANT W    \* w, the width of the image

ASSUME WidthAssumption == W \in Nat \ {0}

VARIABLES
    h,           \* the height of the image, 0 = no image yet
    open,        \* pixels without finger
    background,  \* those reached from the border
    stack        \* pixels to be looked at

maskVars == <<h, open, background, stack>>

Pixels(rows) == 0..W * rows - 1

(* Top and bottom of each column, then both ends of each row.              *)
TopAndBottom(rows) ==
    [k \in 1..2 * W |-> IF k % 2 = 1 THEN k \div 2
                                     ELSE (rows - 1) * W + (k \div 2) - 1]
Ends(rows) ==
    [k \in 1..2 * rows |-> IF k % 2 = 1 THEN (k \div 2) * W
                                        ELSE ((k \div 2) - 1) * W + W - 1]

(* Variant: only the first and the last row.                               *)
BorderNoEnds(rows) == TopAndBottom(rows)

Border(rows) == TopAndBottom(rows) \o Ends(rows)

LeftOf(i) == IF i % W > 0 THEN <<i - 1>> ELSE <<>>
RightOf(i) == IF (i % W) + 1 < W THEN <<i + 1>> ELSE <<>>
Above(i) == IF i \div W > 0 THEN <<i - W>> ELSE <<>>
Below(i) == IF (i \div W) + 1 < h THEN <<i + W>> ELSE <<>>
Neighbours(i) == LeftOf(i) \o RightOf(i) \o Above(i) \o Below(i)

Top == stack[Len(stack)]

(* Variant: a pixel that is passed over stays on the stack.                *)
PoppedIfNew(s) == IF Top \in background THEN s ELSE SubSeq(s, 1, Len(s) - 1)

Popped(s) == SubSeq(s, 1, Len(s) - 1)

(* The mask of an image of so many rows.                                   *)
MaskStart(rows) ==
    /\ h' = rows
    /\ open' \in SUBSET Pixels(rows)
    /\ background' = {}
    /\ stack' = Border(rows)

PassOver ==
    /\ stack # <<>>
    /\ Top \notin open \/ Top \in background
    /\ stack' = Popped(stack)
    /\ UNCHANGED <<h, open, background>>

Reach ==
    /\ stack # <<>>
    /\ Top \in open \ background
    /\ background' = background \cup {Top}
    /\ stack' = Popped(stack) \o Neighbours(Top)
    /\ UNCHANGED <<h, open>>

MaskInit ==
    /\ h \in Nat \ {0}
    /\ open \in SUBSET Pixels(h)
    /\ background = {}
    /\ stack = Border(h)

MaskStep == PassOver \/ Reach

MaskSpec == MaskInit /\ [][MaskStep]_maskVars

-----------------------------------------------------------------------------
(* What the fill is meant to find, in rows and columns.                    *)
OnBorder(i) == i % W \in {0, W - 1} \/ i \div W \in {0, h - 1}

Adjacent(i, j) ==
    \/ i \div W = j \div W /\ (i % W) - (j % W) \in {-1, 1}
    \/ i % W = j % W /\ (i \div W) - (j \div W) \in {-1, 1}

(* Holds the open border, and every open pixel beside one of its own.      *)
Closed(R) ==
    \A j \in open : (OnBorder(j) \/ \E i \in R : Adjacent(i, j)) => j \in R

(* When the stack is empty the background is the least such set: all that  *)
(* is connected to the border, and no hole inside the finger               *)
(* (swipe.rs:277-279).                                                     *)
BackgroundRight ==
    stack = <<>> =>
        /\ Closed(background)
        /\ \A R \in SUBSET open : Closed(R) => background \subseteq R
=============================================================================
