---------------------------- MODULE AtomicStore -----------------------------
(***************************************************************************)
(* What WorkflowRepository promises the commands of one instance: they     *)
(* take effect one after the other, each on the result of the one before,  *)
(* and a preview is confirmed by at most one of them.                      *)
(***************************************************************************)
EXTENDS Sequences, Naturals

CONSTANTS Commands,     \* executions of service commands
          NoPreview,    \* "this command confirms no preview"
          PreviewOf     \* the preview each command confirms, or NoPreview

VARIABLE log            \* the commands that took effect, in order

Applied(c) == \E i \in 1 .. Len(log) : log[i] = c

Confirmed(p) == \E i \in 1 .. Len(log) : PreviewOf[log[i]] = p

Init == log = << >>

Apply(c) ==
    /\ ~Applied(c)
    /\ PreviewOf[c] = NoPreview \/ ~Confirmed(PreviewOf[c])
    /\ log' = Append(log, c)

Next == \E c \in Commands : Apply(c)

Spec == Init /\ [][Next]_log

=============================================================================
