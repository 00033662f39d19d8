------------------------------- MODULE MCConsole -------------------------------
(* Two units and a discovery candidate's, two business objects, two groups. *)
EXTENDS Console

CONSTANTS a, b, d, employee, project, people, money, home

MCCodes == {a, b, d}
MCObjects == {employee, project}
MCFunctions == {people, money}
MCFunctionOf == [c \in MCCodes |-> IF c = d THEN money ELSE people]
MCIndustries == {home}
MCIndustryOf == [c \in MCCodes |-> home]
MCOrder == <<a, b, d>>
MCSeedUnits == {{a}}
MCSeedEdges == {<<>>, <<<<b, a>>, <<d, b>>>>, <<<<a, b>>, <<b, a>>>>}
MCOpenGroups == {{people}}
MCWorkbooks == {<<[code |-> Nothing, object |-> project]>>,
                <<[code |-> b, object |-> Nothing], [code |-> a, object |-> project],
                  [code |-> b, object |-> Nothing]>>}
=============================================================================
