------------------------- MODULE MCShareableNamespace -------------------------
EXTENDS ShareableNamespace

CONSTANTS title, score

At(place, kind, key, arg) == [kind |-> kind, at |-> place, key |-> key, arg |-> arg, label |-> FALSE]
Named(place, kind, key, arg) == [At(place, kind, key, arg) EXCEPT !.label = TRUE]
Get(key) == [kind |-> "get", at |-> "realm", key |-> key]
Act(kind, id) == [kind |-> kind, at |-> "realm", id |-> id]
Clone(id, content) == [kind |-> "clone", at |-> "realm", id |-> id, content |-> content]

NoBounds == [calls |-> 3, failures |-> 0, evictions |-> 0, deploys |-> 0]
Vals(t, s) == [k \in Keys |-> IF k = title THEN t ELSE s]
Used == [NoRow EXCEPT !.schema = 1, !.mv = 1, !.vals = Vals(1, Nothing)]
Realm == [adopts |-> FALSE, compatible |-> TRUE, maxEntries |-> 2, row |-> NoRow,
          legacy |-> NoValues, ops |-> {}, bounds |-> NoBounds]

\* A feature that used to keep its state in the coordinator.
Moving ==
  [Realm EXCEPT !.adopts = TRUE, !.legacy = Vals(1, 1),
     !.ops = {At("realm", "set", title, 2), Named("realm", "add", score, 1), Get(title),
              At("legacy", "increment", title, 1), At("legacy", "set", title, 0), Act("seal", "s1")},
     !.bounds = [NoBounds EXCEPT !.failures = 1, !.evictions = 1]]
Counting ==
  [Moving EXCEPT !.ops = {At("realm", "reset", score, 0), Named("legacy", "add", score, 1), Get(score),
                          At("legacy", "delete", title, 0), At("legacy", "reset", score, 0),
                          At("commit", "add", score, 1)},
     !.bounds.failures = 0]
Upgrading ==
  [Moving EXCEPT !.ops = {Act("unwatch", "w"), Act("watch", "w"), At("realm", "set", title, 2),
                          At("commit", "set", title, 0), Act("snapshot", "x")},
     !.bounds = [NoBounds EXCEPT !.deploys = 1, !.failures = 1]]
\* The same upgrade before anything was written.
Passing ==
  [Moving EXCEPT !.legacy = NoValues, !.ops = {Act("unwatch", "w"), At("legacy", "set", title, 2), Get(title)},
     !.bounds = [NoBounds EXCEPT !.deploys = 1]]
Narrow == [Moving EXCEPT !.maxEntries = 1, !.ops = {Get(title), At("legacy", "set", title, 2)}]

\* A realm the registry fills.
Filling ==
  [Realm EXCEPT !.ops = {Clone("k1", [vals |-> Vals(2, 1), named |-> {score}]),
                         Clone("k1", [vals |-> Vals(1, Nothing), named |-> {}]), Act("empty", "k2"),
                         At("realm", "set", title, 1), Act("seal", "s1")},
     !.bounds = [NoBounds EXCEPT !.calls = 4, !.evictions = 1]]
FillingIntegration == [Filling EXCEPT !.adopts = TRUE, !.bounds.calls = 3]

\* A realm in use that is sealed, released and archived.
Closing ==
  [Realm EXCEPT !.row = Used,
     !.ops = {Act("seal", "s1"), Act("seal", "s2"), Act("release", "s1"), Act("freeze", "f1"), Act("freeze", "f2"),
              At("realm", "set", title, 2), At("commit", "set", title, 1), Clone("k1", Empty)},
     !.bounds = [NoBounds EXCEPT !.calls = 4]]
Archived ==
  [Closing EXCEPT !.ops = {Act("freeze", "f1"), Act("snapshot", "x"), Get(title), At("realm", "delete", title, 0),
                           Named("commit", "assign", score, 1)},
     !.bounds = [NoBounds EXCEPT !.deploys = 1]]
Incompatible == [Archived EXCEPT !.compatible = FALSE, !.bounds.calls = 2]

\* Every operation on values, with room for one more entry or none.
Using ==
  [Realm EXCEPT !.row = Used, !.maxEntries = 1,
     !.ops = {At("realm", "set", title, 1), At("realm", "delete", title, 0), At("realm", "increment", title, 1),
              At("realm", "add", score, -1), Named("realm", "add", score, 1), Named("realm", "assign", score, 1),
              At("realm", "reset", score, 0), Get(score)}]

namespaceSettings ==
  {Moving, Counting, Upgrading, Passing, Narrow, Filling, FillingIntegration, Closing, Archived, Incompatible, Using,
   [Using EXCEPT !.maxEntries = 2, !.row.vals = Vals(1, 1)]}
archiveSettings == {Archived}

=============================================================================
