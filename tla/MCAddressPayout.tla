-------------------------- MODULE MCAddressPayout --------------------------
EXTENDS AddressPayout

CONSTANTS p1, p2, served, conv, odd

const_Fundable == {<<p1, served>>, <<p1, conv>>}
const_Pairs == {<<served, conv>>, <<odd, served>>}
const_Preference == <<>>
const_Precision == [a \in Asset |-> IF a = odd THEN 8 ELSE 6]
=============================================================================
