---------------------------- MODULE MCServerBoot ----------------------------
(* Small instances of ServerBoot: types of either kind, a schema that is    *)
(* not named and one of an unknown category; a release that adds a property *)
(* to a schema, and three with a schema that has no category, has a         *)
(* property of no type of the store, or cannot be read.                     *)
EXTENDS ServerBoot

Schema(name, category, named, props) ==
    [name |-> name, category |-> category, named |-> named, props |-> props, file |-> "good"]

Old      == [p |-> "STRING"]
New      == [p |-> "STRING", q |-> "INT"]
Extended == {Old, New, [p |-> "INT"]}

Others   == {Schema("artifact", "artifact", FALSE, Old), Schema("Container", "unknown", TRUE, Old),
             Schema("Execution", "execution", TRUE, Old)}
Shipped  == Others \cup {Schema("Model", "artifact", TRUE, Old), Schema("Metrics", "artifact", TRUE, Old)}
Upgraded == Others \cup {Schema("Model", "artifact", TRUE, New), Schema("Metrics", "artifact", TRUE, Old)}
Broken   == Shipped \cup {Schema("Other", "missing", TRUE, Old)}

Unfit(file) == [Schema("Other", "artifact", TRUE, Old) EXCEPT !.file = file]

OneRelease  == {Shipped}
AllReleases ==
    {Shipped, Upgraded, Broken, Shipped \cup {Unfit("unresolvable")}, Shipped \cup {Unfit("unreadable")}}
=============================================================================
