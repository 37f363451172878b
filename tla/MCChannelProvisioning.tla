---------------------- MODULE MCChannelProvisioning ----------------------
EXTENDS ChannelProvisioning

CONSTANTS served, conv

const_Pairs == {<<served, conv>>}
const_Preference == <<>>
const_Precision == [a \in Asset |-> 6]
=============================================================================
