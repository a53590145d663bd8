---------------------------- MODULE MCKGCuration ----------------------------
EXTENDS KGCuration, TLC

Claim(item, source, unit, axes, terms) ==
    [item |-> item, source |-> source, unit |-> unit, axes |-> axes, candidates |-> terms]

\* Two sources that share two subjects, one of them inflected, in their first unit.
Law == {Claim("i1", "s1", 1, "ought", {<<"rule", FALSE>>}),
        Claim("i2", "s1", 1, "is", {<<"court", TRUE>>}),
        Claim("i3", "s2", 1, "ought", {<<"rules", FALSE>>, <<"rule", FALSE>>}),
        Claim("i4", "s2", 1, "is", {<<"court", FALSE>>})}
News == {Claim("i5", "s3", None, "ought", {<<"rule", TRUE>>, <<"courtroom", FALSE>>})}
MCPool == [d \in {"law", "news"} |-> IF d = "law" THEN Law ELSE News]
MCInitialClaims == {[d \in {"law", "news"} |-> IF d = "law" THEN Law ELSE News],
                    [d \in {"law", "news"} |-> IF d = "law" THEN {} ELSE None]}
MCDomainOrder == <<"law", "news">>
MCSourceOrder == <<"s1", "s2", "s3">>
MCNorm == [t \in {"rule", "rules", "court", "courtroom"} |-> IF t = "rules" THEN "rule" ELSE t]
MCLength == [t \in DOMAIN MCNorm |->
                CASE t = "rule" -> 4 [] t = "rules" -> 5 [] t = "court" -> 6 [] OTHER -> 9]
Symmetry == Permutations(Workers)
=============================================================================
