------------------------------ MODULE MCNetwork ------------------------------
EXTENDS Network

CONSTANTS own, gateway, peer, third, limited, m1, m2

LocalValue == {own, gateway, peer, third}
AddressValue == LocalValue \cup {limited}
MacValue == {m1, m2}
OffersValue == {<<gateway, own>>, <<third, third>>}
AnnouncementsValue == {<<gateway, m1>>, <<gateway, m2>>, <<peer, m1>>, <<third, m2>>}

=============================================================================
