---------------------------- MODULE JobLifecycle ----------------------------
(***************************************************************************)
(* What the queue promises about the jobs of an image, as the README's     *)
(* "life of a job" diagram draws it: a job is pending until a worker takes *)
(* it; a running job ends done, goes back to pending with or without an    *)
(* attempt charged, or fails having used its last attempt; done and failed *)
(* are final; and only when the last job of an image is final can the next *)
(* one appear.  Clocks, leases, priorities and workers are not part of it. *)
(***************************************************************************)
EXTENDS Integers, Sequences

CONSTANTS Images, MaxAttempts

VARIABLE life    \* life[i]: the jobs of image i, oldest first

Final == {"done", "failed"}
Fresh == [status |-> "pending", attempts |-> 0]

Init == life = [i \in Images |-> <<>>]

\* The edges of the diagram.  A failure can be permanent, so that a job may
\* fail with attempts left, but no job is retried with none left.
edge(a, b) ==
    \/ /\ a.status = "pending" /\ b.status = "running"
       /\ b.attempts = a.attempts
    \/ /\ a.status = "running" /\ b.status \in {"done", "pending"}
       /\ b.attempts = a.attempts
    \/ /\ a.status = "running" /\ b.status = "pending"
       /\ b.attempts = a.attempts + 1 /\ b.attempts < MaxAttempts
    \/ /\ a.status = "running" /\ b.status = "failed"
       /\ b.attempts = a.attempts + 1 /\ b.attempts <= MaxAttempts

\* jobs becomes next because its last job takes an edge.
moves(jobs, next) ==
    /\ jobs # <<>>
    /\ DOMAIN next = DOMAIN jobs
    /\ \A n \in DOMAIN jobs : n # Len(jobs) => next[n] = jobs[n]
    /\ edge(jobs[Len(jobs)], next[Len(jobs)])

\* jobs becomes next because a job is enqueued.
grows(jobs, next) ==
    /\ jobs # <<>> => jobs[Len(jobs)].status \in Final
    /\ next = Append(jobs, Fresh)

\* One transaction may touch several images, but each in one of these ways.
\* A scheduler pass may give up on a job and enqueue the image again.
Next ==
    \A i \in Images :
        \/ life'[i] = life[i]
        \/ moves(life[i], life'[i])
        \/ grows(life[i], life'[i])
        \/ \E jobs \in {SubSeq(life'[i], 1, Len(life[i]))} :
              moves(life[i], jobs) /\ grows(jobs, life'[i])

Spec == Init /\ [][Next]_life
=============================================================================
