------------------------------ MODULE Mailbox ------------------------------
(***************************************************************************)
(* What a one-slot transport promises, and no more: numbered posts into a  *)
(* box that holds one of them.  A post may be replaced or cleared before   *)
(* it is taken; it is never taken twice, and never after a later one.      *)
(***************************************************************************)
EXTENDS Naturals, TLAPS

VARIABLES
    box,      \* the number of the post in the box, 0 when it is empty
    put,      \* posts so far
    taken     \* the last post taken

mailboxVars == <<box, put, taken>>

MailboxInit == box = 0 /\ put = 0 /\ taken = 0

\* The number is used up even when there is nothing to put.
Post == put' = put + 1 /\ box' \in {0, put'} /\ UNCHANGED taken

Take == box # 0 /\ taken' = box /\ box' = 0 /\ UNCHANGED put

Clear == box' = 0 /\ UNCHANGED <<put, taken>>

MailboxNext == Post \/ Take \/ Clear

MailboxSpec == MailboxInit /\ [][MailboxNext]_mailboxVars

\* Only the newest post can be waiting, and it is newer than any taken before.
NewestWaits ==
    /\ box \in Nat /\ put \in Nat /\ taken \in Nat
    /\ box # 0 => box = put /\ taken < box
    /\ taken <= put

\* However posts, takes and clears interleave, a waiting post is the newest and
\* has not been taken: nothing is taken twice or after a later post.
THEOREM TakenInOrder == MailboxSpec => []NewestWaits
<1>1. MailboxInit => NewestWaits
  BY DEF MailboxInit, NewestWaits
<1>2. NewestWaits /\ [MailboxNext]_mailboxVars => NewestWaits'
  BY SMT DEF NewestWaits, MailboxNext, Post, Take, Clear, mailboxVars
<1> QED
  BY <1>1, <1>2, PTL DEF MailboxSpec
=============================================================================
