CONSTANTS
    PortCapacity = 2
    Movements <- MCMovements
    ScanCodes = {30}
SPECIFICATION InputSpec
PROPERTIES PacketsFaithful Resynchronises KeysFaithful BytesAreRead
