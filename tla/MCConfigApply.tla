----------------------------- MODULE MCConfigApply -----------------------------
(***************************************************************************)
(* ConfigApply for TLC, with a few files over four slugs: two that are     *)
(* fine and rename each other's channel, some whose renames are chained,   *)
(* swapped or lead to one name, one that names an unknown channel, and one *)
(* that makes the mail channel a Slack one.                                *)
(***************************************************************************)
EXTENDS ConfigApply, TLC

File(rename, entities, links, email) ==
  [malformed |-> FALSE, complaint |-> FALSE, rename |-> rename,
   entities |-> entities, links |-> links, email |-> email]

C == "notification-channels"
M == "monitors"
G == "mail-groups"
S == "services"

Says(kind, slug, type)  ==
  [kind |-> kind, slug |-> slug, type |-> type, value |-> "plain"]
Rename(kind, src, dst)   == [kind |-> kind, src |-> src, dst |-> dst]
To(m, kind, slug)        == [monitor |-> m, kind |-> kind, slug |-> slug]

One ==
  File({Rename(C, "b", "a")},
       {Says(C, "a", "smtp"), Says(M, "a", "none"), Says(S, "a", "none")},
       {To("a", C, "a")}, "a")

Two ==
  File({Rename(C, "a", "b")},
       {Says(C, "b", "smtp"), Says(M, "a", "none"), Says(M, "b", "none"),
        Says(G, "a", "none")},
       {To("a", C, "b"), To("b", C, "b"), To("b", G, "a")}, "b")

Plain ==
  File({}, {Says(C, "a", "smtp"), Says(M, "a", "none")}, {To("a", C, "a")}, "a")

Chain ==
  File({Rename(M, "a", "b"), Rename(M, "b", "c")},
       {Says(M, "b", "none"), Says(M, "c", "none")}, {}, "none")

Unknown ==
  File({}, {Says(M, "a", "none")}, {To("a", C, "b")}, "none")

Slack ==
  File({}, {Says(C, "a", "slack"), Says(M, "a", "none")}, {To("a", C, "a")}, "a")

\* Both channels are renamed to each other's name: no order works.
Swap ==
  File({Rename(C, "a", "b"), Rename(C, "b", "a")},
       {Says(C, "a", "smtp"), Says(C, "b", "smtp")}, {}, "b")

\* Two monitors are renamed to one name, and a third rename makes room between.
Converge ==
  File({Rename(M, "a", "c"), Rename(M, "b", "c"), Rename(M, "c", "d")},
       {Says(M, "c", "none"), Says(M, "d", "none")}, {}, "none")

SlugsUsed == {"a", "b", "c", "d"}
TextUsed  == [plain |-> Plain, one |-> One, two |-> Two, chain |-> Chain,
              unknown |-> Unknown, slack |-> Slack, swap |-> Swap, converge |-> Converge]
AllFiles  == DOMAIN TextUsed

===============================================================================
