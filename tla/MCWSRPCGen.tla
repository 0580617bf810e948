----------------------------- MODULE MCWSRPCGen -----------------------------
(* The interface TLC runs the generated code of: a unit with imports, a      *)
(* struct that defines an enum and a type with a name the unit has too, an   *)
(* enum whose numbers meet kMax, and a list of ints.                         *)
EXTENDS WSRPCGen

Single(parts) == [list |-> FALSE, type |-> parts]
List(parts) == [list |-> TRUE, type |-> parts]
Decl(id, type) == [id |-> id, type |-> type]
Named(name, def) == [name |-> name, def |-> def]
Inner(parent, types) == [parent |-> parent, imports |-> <<>>, types |-> types]

MCScope ==
  [unit |-> [parent |-> "none", imports |-> <<"lib">>,
             types |-> <<Named("Point", "Point"), Named("Line", "Line"), Named("Tree", "Tree"),
                         Named("Mode", "Mode"), Named("Level", "Level")>>],
   lib |-> [parent |-> "none", imports |-> <<"core">>, types |-> <<>>],
   core |-> Inner("none", <<Named("Tag", "Tag")>>),
   Point |-> Inner("unit", <<>>), Tag |-> Inner("core", <<>>), Tree |-> Inner("unit", <<>>),
   Mode |-> Inner("unit", <<>>), Level |-> Inner("unit", <<>>),
   Line |-> Inner("unit", <<Named("Style", "Style"), Named("Point", "OwnPoint")>>),
   Style |-> Inner("Line", <<>>), OwnPoint |-> Inner("Line", <<>>),
   prog |-> Inner("unit", <<>>),
   other |-> Inner("unit", <<>>)]

Struct(decls) == [kind |-> "struct", decls |-> decls, entries |-> <<>>]
Entry(id, str, num) == [id |-> id, str |-> str, num |-> num]
Enum(entries) == [kind |-> "enum", decls |-> <<>>, entries |-> entries]

MCDef ==
  [Point |-> Struct(<<Decl("xs", List(<<"int">>))>>),
   Line |-> Struct(<<Decl("points", List(<<"Point">>)), Decl("style", Single(<<"Style">>))>>),
   Style |-> Enum(<<Entry("solid", "Solid", 0), Entry("dashed", "dashed", 1)>>),
   Mode |-> Enum(<<Entry("on", "Solid", 1), Entry("off", "dashed", 0)>>),
   Level |-> Enum(<<Entry("low", "Solid", 0), Entry("none", "dashed", 0)>>),
   Tree |-> Struct(<<Decl("branches", List(<<"Tree">>))>>),
   Tag |-> Struct(<<Decl("name", Single(<<"string">>))>>),
   OwnPoint |-> Struct(<<Decl("label", Single(<<"string">>))>>)]

Method(name, args, ret) == [name |-> name, args |-> args, ret |-> ret]

MCPrograms ==
  <<[scope |-> "prog",
     versions |-> <<[num |-> "1", methods |->
                       <<Method("draw", <<Decl("line", Single(<<"Line">>)), Decl("at", Single(<<"Point">>))>>,
                                Single(<<"int">>)),
                         Method("style", <<Decl("style", Single(<<"Line", "Style">>)),
                                           Decl("points", List(<<"Line", "Point">>))>>, Single(<<"Line", "Style">>)),
                         Method("mode", <<Decl("level", Single(<<"Level">>)), Decl("mode", Single(<<"Mode">>))>>, Single(<<"Mode">>)),
                         Method("clear", <<Decl("points", List(<<"Point">>))>>, Single(<<"void">>)),
                         Method("grow", <<Decl("tree", Single(<<"Tree">>))>>, Single(<<"Tree">>)),
                         Method("tags", <<Decl("tag", Single(<<"Tag">>))>>, List(<<"Tag">>))>>],
                    [num |-> "2", methods |->
                       <<Method("draw", <<Decl("n", Single(<<"int">>))>>, Single(<<"int">>))>>]>>],
    [scope |-> "other",
     versions |-> <<[num |-> "1", methods |->
                       <<Method("move", <<Decl("to", Single(<<"Point">>))>>, Single(<<"void">>))>>]>>]>>

(* "a0b" has a NUL between a and b, and 2^32 is no int.                      *)
MCTexts == [int |-> {"0", "1", "2^32"}, string |-> {"a", "a0b", "Solid", "dashed"}]
MCCStr == [x \in MCTexts.string |-> IF x = "a0b" THEN "a" ELSE x]
MCToInt == [x \in MCTexts.int |-> IF x = "2^32" THEN "0" ELSE x]

Object(keys, members) == Ucl("object", "", keys, members)
Number == Ucl("int", "1", <<>>, <<>>)
Big == Ucl("int", "2^32", <<>>, <<>>)
Text(t) == Ucl("string", t, <<>>, <<>>)
Request(method, params) == [method |-> method, params |-> params]

(* Requests by other hands: no parameters, parameters of the wrong type or   *)
(* with a wrong element, an entry that does not exist, an object for a list. *)
LabelA == Object(<<"label">>, <<Text("a")>>)
MCForeign ==
  {Request("style_v1", Object(<<>>, <<>>)), Request("style_v1", Object(<<"style">>, <<Text("Solid")>>)),
   Request("style_v1", Object(<<"style", "points">>, <<Text("a"), LabelA>>)),
   Request("style_v1", Object(<<"points", "style">>,
                              <<Object(<<"a", "b">>, <<LabelA, LabelA>>), Text("Solid")>>)),
   Request("style_v1", Object(<<"style", "points">>,
                              <<Text("dashed"), Ucl("array", "", <<>>, <<LabelA, Number>>)>>)),
   Request("move_v1", Object(<<"to">>, <<LabelA>>)),
   Request("move_v1", Object(<<"to">>, <<Object(<<"xs">>, <<Text("a")>>)>>)),
   Request("move_v1", Object(<<"to">>, <<Object(<<"xs">>, <<Ucl("array", "", <<>>, <<Number, Big>>)>>)>>)),
   Request("style_v1", Object(<<"style", "points">>, <<Text("dashed"), Object(<<"label">>, <<Text("a0b")>>)>>)),
   Request("tags_v1", Object(<<"tag">>, <<Number>>)), Request("nothing_v1", Object(<<>>, <<>>))}

(* Results by other hands: a string, and a list of one tag.                  *)
MCOwn == {Text("dashed"), Ucl("array", "", <<>>, <<Object(<<"name">>, <<Text("a")>>)>>)}

(* src/hdr/eci/WSRPC.hh:128: "@returns 1 if error occured during method      *)
(* processing. (Error object set in req.)": a request that was not executed  *)
(* is answered with an error.                                                *)
NotExecutedIsError == at = "answered" /\ ran = <<>> => reply.err # "none"
=============================================================================
