------------------------------- MODULE VvBuf -------------------------------
(***************************************************************************)
(* The buffer queue of v4l2/video/vvbuf.c: a vvbuf_ctx is a spinlock and a *)
(* list, and every operation runs under the lock, so a queue is the        *)
(* sequence of its buffers and an operation is one step of its caller.     *)
(* The C functions return NULL on an empty list; a caller here tests       *)
(* emptiness with Pullable before it uses PullBuf.                         *)
(***************************************************************************)
EXTENDS Naturals, Sequences

\* vvbuf_push_buf: list_add_tail.
PushBuf(q, b) == Append(q, b)

\* vvbuf_pull_buf and vvbuf_try_dqbuf return NULL exactly when the list is
\* empty.
Pullable(q) == q # <<>>

\* vvbuf_try_dqbuf: the first entry, the one vvbuf_pull_buf returns as well.
TryDqbuf(q) == Head(q)

\* Mutant: the entry stays linked.
PullBufPeek(q) == q

\* vvbuf_pull_buf: what is left once the first entry is taken off.
PullBuf(q) == Tail(q)

\* list_add_tail of an entry that is already linked corrupts the list: the
\* callers' models stop there, so that a queue never repeats a buffer.
OnList(q, b) == \E k \in DOMAIN q : q[k] = b

\* The buffers of a queue.
Entries(q) == {q[k] : k \in DOMAIN q}

\* No buffer is linked twice.
Distinct(q) == \A j, k \in DOMAIN q : q[j] = q[k] => j = k
=============================================================================
