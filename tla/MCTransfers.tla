---------------------------- MODULE MCTransfers ----------------------------
(* Small repositories for Transfers: two namespaces with a class of the same name. *)
EXTENDS Transfers, TLC

MCNameOf == ("crm_Person" :> "Person" @@ "hr_Person" :> "Person" @@ "crm_Agent" :> "Agent")

\* A shape's IRI has the local name of its class: classes of one name share it.
ShapesOf(name) == CASE name = "Person" -> ("crm" :> "crm_PersonShape" @@ "hr" :> "hr_PersonShape")
                    [] name = "Agent" -> ("crm" :> "crm_AgentShape" @@ "hr" :> "hr_AgentShape")
                    [] OTHER -> ("crm" :> "crm_OtherShape" @@ "hr" :> "hr_OtherShape")
AppClasses == {"Namespace", "Workspace", "Note"}
MCShapeIri == [c \in DOMAIN MCNameOf |-> ShapesOf(MCNameOf[c])] @@ [c \in AppClasses |-> ShapesOf("Other")]

InCrm == {"crm_Person", "crm_Agent", "crm_PersonShape", "crm_AgentShape", "crm_leads", "crm_anna"}
InHr == {"hr_Person", "hr_PersonShape", "hr_AgentShape", "hr_mentors", "hr_hugo"}
MCHomeOf == [i \in InCrm |-> "crm"] @@ [i \in InHr |-> "hr"]

App(namespaces, notes) ==
  UNION {Declaration(n, "Namespace") : n \in namespaces} \cup Declaration("ws", "Workspace")
    \cup UNION {Declaration(n, "Note") : n \in notes}

Graph(instances, schema, shapes, blocks) ==
  [instances |-> instances, schema |-> schema, shapes |-> shapes, blocks |-> blocks]

\* A class with a superclass, a relation, a shape and an individual that refers to a class.
CrmSchema == {<<"crm_Person", "a", "Class">>, <<"crm_Person", "label", "person">>,
              <<"crm_Person", "subClassOf", "crm_Agent">>, <<"crm_Agent", "a", "Class">>,
              <<"crm_leads", "a", "ObjectProperty">>, <<"crm_leads", "domain", "crm_Person">>,
              <<"crm_leads", "range", "crm_Agent">>}
CrmShapes == {<<"crm_PersonShape", "a", "NodeShape">>, <<"crm_PersonShape", "targetClass", "crm_Person">>}
CrmBlocks == {[of |-> "crm_PersonShape", path |-> "crm_leads"]}
Anna == {<<"crm_anna", "a", "crm_Person">>, <<"crm_anna", "crm_leads", "crm_Agent">>}

\* The same in another namespace, with an individual that refers to a class of the first.
HrSchema == {<<"hr_Person", "a", "Class">>, <<"hr_mentors", "a", "ObjectProperty">>,
             <<"hr_mentors", "domain", "hr_Person">>, <<"hr_mentors", "range", "hr_Person">>}
HrShapes == {<<"hr_PersonShape", "a", "NodeShape">>, <<"hr_PersonShape", "targetClass", "hr_Person">>}
HrBlocks == {[of |-> "hr_PersonShape", path |-> "hr_mentors"]}
Hugo == {<<"hr_hugo", "a", "hr_Person">>, <<"hr_hugo", "hr_mentors", "crm_Person">>}

Full == ("crm" :> Graph(Anna, App({"crm", "hr"}, {"note"}) \cup CrmSchema, CrmShapes, CrmBlocks)
         @@ "hr" :> Graph(Hugo, HrSchema, HrShapes, HrBlocks))

\* A repository just set up, and one that calls a class otherwise and has it in a namespace alone.
Fresh == ("crm" :> Graph({}, App({"crm"}, {}), {}, {}) @@ "hr" :> NoGraph)
Other == ("crm" :> Graph({}, App({"crm"}, {}) \cup {<<"crm_Person", "a", "Class">>, <<"crm_Person", "label", "human">>},
                         CrmShapes, {[of |-> "crm_PersonShape", path |-> "crm_name"]})
          @@ "hr" :> NoGraph)

\* Placed elements, each under its own subject.
Placed(els) ==
  [s \in Subjects |-> IF s \in els THEN [elements |-> {s}, positions |-> {1}] ELSE NoRow]

MCRepositories == {[graphs |-> Full, rows |-> Placed({"crm_Agent"})], [graphs |-> Fresh, rows |-> Placed({})],
                   [graphs |-> Other, rows |-> Placed({})]}

\* A file with two members of one name, and what one of them refers to.
MCForeign == {CHOOSE f \in Exports(Full, Placed({"crm_Person", "hr_Person"})) : TRUE}

\* Calls beside transfers: none, one, two and three of them.
MCCallsBeside == (0 :> 5 @@ 1 :> 1 @@ 2 :> 0 @@ 3 :> 0)

\* Edits that close a cycle, take a class away under what refers to it, and remove or add an
\* individual, a property and a shape's target.
MCEdits == {<<"crm_Agent", "subClassOf", "crm_Person">>, <<"crm_Agent", "a", "Class">>,
            <<"crm_anna", "a", "crm_Person">>, <<"crm_leads", "a", "ObjectProperty">>,
            <<"crm_PersonShape", "targetClass", "crm_Person">>}

\* An entity may be opened with another namespace still chosen.
MCScopes == {<<"all", "crm">>, <<"all", "hr">>, <<"crm_Person", "crm">>, <<"crm_Person", "hr">>,
             <<"hr_Person", "hr">>, <<"crm_leads", "crm">>, <<"crm_anna", "crm">>}
=============================================================================
