----------------------- MODULE MCRequirementTracking ------------------------
(***************************************************************************)
(* Model checking instance of RequirementTracking: texts of which two have *)
(* the same prefix and one normalizes to nothing; a solicitation whose     *)
(* sentences have cues, headings and a short one among them, and none.     *)
(***************************************************************************)
EXTENDS RequirementTracking

Keys == [t \in {"sign", "sign again", "insure", "dash"} |->
            CASE t \in {"sign", "sign again"} -> "sign" [] t = "dash" -> NoKey [] OTHER -> t]

S(text, cue, short, heading) == [text |-> text, cue |-> cue, short |-> short, heading |-> heading]

Texts == {<<>>,
          <<S("sign", "soft", FALSE, "Section A"), S("dash", "none", FALSE, "Section B"),
            S("sign again", "mandatory", FALSE, NoSection),
            S("insure", "mandatory", FALSE, NoSection),
            S("dash", "soft", TRUE, NoSection)>>}

R(text, mandatory) ==
    [text |-> text, mandatory |-> mandatory, locator |-> NoSection, review |-> ~mandatory]

Findings == {<<R("sign", FALSE)>>,
           <<R("dash", TRUE), R("sign again", TRUE), R("sign", FALSE)>>}
=============================================================================
