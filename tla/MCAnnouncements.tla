-------------------------- MODULE MCAnnouncements --------------------------
EXTENDS Announcements

\* One kind per way of auditing and notifying.
MCKinds == {"OrderCollected", "SoultokenIssued", "DorotkaQueried"}
=============================================================================
