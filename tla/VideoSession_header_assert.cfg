SPECIFICATION Spec
CONSTANT Streams <- BadStreams
INVARIANT DecodeHeaderAssert
