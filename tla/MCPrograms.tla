---- MODULE MCPrograms ----
EXTENDS Programs

Plain ==
  [kind |-> "runner", stacks |-> <<>>, mock |-> FALSE, target |-> TRUE, bluez |-> FALSE,
   callback |-> FALSE]

RealStacks == DOMAIN Stack \ {"micro_fake"}

\* The runner on every two stacks, of which the second meets what the first
\* has left, and on the micro stack with and without --target.
MCRunners ==
  { [Plain EXCEPT !.stacks = s] : s \in {t \in RealStacks \X RealStacks : t[1] # t[2]} }
  \cup { [Plain EXCEPT !.stacks = s, !.mock = TRUE] :
           s \in {<<"raw_l2cap", "raw_dbus">>, <<"lib_bleak", "lib_bluek">>} }
  \cup { [Plain EXCEPT !.stacks = <<s>>, !.bluez = TRUE] : s \in RealStacks }
  \cup { [Plain EXCEPT !.stacks = <<"micro_fake">>, !.target = b] : b \in BOOLEAN }

MCJobs ==
  MCRunners
  \cup { [Plain EXCEPT !.kind = "echo"] }
  \cup { [Plain EXCEPT !.kind = "pair", !.callback = b] : b \in BOOLEAN }
  \cup { [Plain EXCEPT !.kind = "establish", !.bluez = b] : b \in BOOLEAN }
====
